---- MODULE Spec2Model ----
(***************************************************************************)
(* A model of the FuzroDo workflow orchestration server:                   *)
(*   - the resume token store (utils/workflowState.ts),                    *)
(*   - requirement validation (utils/mcpClient.ts, utils/requirements.ts), *)
(*   - the graphs and nodes of create_jira_with_audio_quote and            *)
(*     create_audio_quote_and_append_to_ticket,                            *)
(*   - the CallToolRequest handler of index.ts (invoke and resume paths).  *)
(*                                                                         *)
(* JavaScript objects are functions from field names to values; a field    *)
(* that is undefined is absent from the domain.  null is the record None.  *)
(***************************************************************************)
EXTENDS Integers, Sequences, FiniteSets, TLC

VARIABLES
    states,     \* WorkflowStateManager.states : token -> PersistedWorkflowState
    now,        \* Date.now()
    nextUuid,   \* the next value uuidv4() hands out
    ret,        \* the store call that has just returned, and what it returned
    issued,     \* history: every save made, in order
    deleted,    \* history: the tokens delete() was called with
    config,     \* mcpClientManager.config: the MCP servers that are configured
    manager,    \* mcpClientManager: its connections map, and the history of
                \* the processes it launched and the clients it opened and closed
    clientRet,  \* the mcpClientManager call that has just returned, and its result
    connects,   \* connect or disconnect calls that may overlap: where each
                \* stands, its result
    calls       \* the CallToolRequest handler's invocations in flight or finished

storeVars == <<states, now, nextUuid>>
histVars  == <<ret, issued, deleted>>
clientVars == <<manager, clientRet, connects>>
vars      == <<states, now, nextUuid, ret, issued, deleted, config, calls,
               manager, clientRet, connects>>

(***************************************************************************)
(* Bounds of the model                                                     *)
(***************************************************************************)
MaxSaves == 2      \* save() calls in one behaviour
MaxTicks == 2      \* clock advances in one behaviour
MaxCalls == 2      \* CallToolRequest invocations in one behaviour
MaxPaused == 1     \* snapshots saved while the handler is exercised
MaxSpawned == 2    \* processes launched per server while the manager is exercised
MaxConnects == 3   \* connect calls that may overlap
MaxGraphs == 2     \* graphs invoked while the graphs are exercised on their own
MaxEnvServers == 2 \* server prefixes in the environment while the configuration is loaded
MaxDisconnects == 2 \* disconnect calls that may overlap with other calls

(***************************************************************************)
(* Values                                                                  *)
(***************************************************************************)
None == [none |-> TRUE]

DEFAULT_TTL == 1800000

\* the registered workflows (WorkflowDefinition.id)
JiraAudioQuote   == "create_jira_with_audio_quote"
AudioQuoteAppend == "create_audio_quote_and_append_to_ticket"
WorkflowIds == {JiraAudioQuote, AudioQuoteAppend}

\* the workflow whose graph is in workflows/createJiraTicket/workflow.ts
CreateJiraTicket == "create_jira_ticket"

\* the MCP servers the workflows call
Servers == {"atlassian-prompts", "elevenlabs"}

Remove(m, t) == [k \in (DOMAIN m) \ {t} |-> m[k]]

(***************************************************************************)
(* WorkflowStateManager (utils/workflowState.ts)                           *)
(***************************************************************************)
\* ttl || this.DEFAULT_TTL : an omitted ttl and a ttl of 0 are both falsy
EffectiveTtl(ttl) == IF ttl.given /\ ttl.ms # 0 THEN ttl.ms ELSE DEFAULT_TTL

SaveExpiresAt(n, ttl) == n + EffectiveTtl(ttl)

\* `${workflowId}-${uuidv4()}`
ResumeTokenOf(workflowId, uuid) == <<workflowId, uuid>>

IsExpired(p, n) == n > p.expiresAt

cleanupExpired(m, n) ==
    [k \in {t \in DOMAIN m : ~IsExpired(m[t], n)} |-> m[k]]

PersistedState(workflowId, tok, state, ttl, n) ==
    [workflowId |-> workflowId, resumeToken |-> tok, state |-> state,
     timestamp |-> n, expiresAt |-> SaveExpiresAt(n, ttl)]

\* a save that does not sweep
SaveStatesNoSweep(m, workflowId, uuid, state, ttl, n) ==
    LET tok == ResumeTokenOf(workflowId, uuid)
    IN  (tok :> PersistedState(workflowId, tok, state, ttl, n)) @@ m

\* states after save(workflowId, state, ttl): set, then cleanupExpired
SaveStates(m, workflowId, uuid, state, ttl, n) ==
    LET tok == ResumeTokenOf(workflowId, uuid)
    IN  cleanupExpired((tok :> PersistedState(workflowId, tok, state, ttl, n)) @@ m, n)

\* what load(resumeToken) returns
LoadValue(m, tok, n) ==
    IF tok \notin DOMAIN m THEN None
    ELSE IF IsExpired(m[tok], n) THEN None
    ELSE m[tok].state

\* a load that consumes the record it returns
LoadStatesConsumes(m, tok, n) == Remove(m, tok)

\* states after load(resumeToken): an expired record is evicted
LoadStates(m, tok, n) ==
    IF tok \in DOMAIN m /\ IsExpired(m[tok], n) THEN Remove(m, tok) ELSE m

\* a delete that leaves the record in the map
DeleteStatesKeeps(m, tok) == m

\* states after delete(resumeToken)
DeleteStates(m, tok) == Remove(m, tok)

HasValue(m, tok, n) == tok \in DOMAIN m /\ ~IsExpired(m[tok], n)

HasStates(m, tok, n) == LoadStates(m, tok, n)

\* persisted?.workflowId || null : no expiry check, and '' is falsy
GetWorkflowIdValue(m, tok) ==
    IF tok \in DOMAIN m /\ m[tok].workflowId # "" THEN [id |-> m[tok].workflowId]
    ELSE None


(***************************************************************************)
(* Requirement validation (utils/mcpClient.ts, utils/requirements.ts)      *)
(***************************************************************************)
RequiredServer(name, tools) == [name |-> name, tools |-> tools, optional |-> FALSE]

\* workflowConfig of the two workflows
Requirements(workflowId) ==
    IF workflowId = JiraAudioQuote
    THEN [mcpServers |->
             <<RequiredServer("atlassian-prompts", <<"generate_prompt">>),
               RequiredServer("elevenlabs",
                              <<"create_wise_quote_audio", "download_audio">>)>>,
          environment |-> <<"OPENAI_API_KEY">>]
    ELSE [mcpServers |->
             <<RequiredServer("elevenlabs",
                              <<"create_wise_quote_audio", "download_audio">>),
               RequiredServer("atlassian-prompts", <<"generate_prompt">>)>>,
          environment |-> <<"OPENAI_API_KEY">>]

\* one line of a validation report: a message text and what it is about
Msg(text, subject, detail) == [text |-> text, subject |-> subject, detail |-> detail]

EmptyReport ==
    [valid |-> TRUE, errors |-> <<>>, warnings |-> <<>>,
     availableServers |-> <<>>, missingServers |-> <<>>, missingTools |-> <<>>]

(***************************************************************************)
(* MCPClientManager (utils/mcpClient.ts).  A world says what the servers    *)
(* outside do during one call: which can be launched and complete the      *)
(* handshake, which answer listTools and with which catalog, which answer  *)
(* callTool, which let close() resolve, and what process.env holds.        *)
(***************************************************************************)
\* an argument of a constructor that was left undefined
Undefined == "<undefined>"

\* new MCPClientError(message, serverName, toolName, cause)
MCPClientError(message, serverName, toolName, cause) ==
    [name |-> "MCPClientError", message |-> message, serverName |-> serverName,
     toolName |-> toolName, cause |-> cause]

\* a manager after construction: no connection; the history fields record
\* the names connect was called with, the processes launched per server,
\* and the clients whose handshake completed and that were closed
NewManager ==
    [connections |-> <<>>, contacted |-> {}, spawned |-> [s \in Servers |-> 0],
     opened |-> {}, closed |-> {}]

\* the MCPConnection that connect stores: tools is not set yet
NewConnection(client) ==
    [client |-> client, connected |-> TRUE, cached |-> FALSE, tools |-> {}]

\* existing?.connected
IsConnected(mgr, serverName) ==
    /\ serverName \in DOMAIN mgr.connections
    /\ mgr.connections[serverName].connected

\* connect that launches a process whether or not a connection exists
connectAlwaysLaunches(mgr, serverName, cfg, world) ==
    LET m0 == [mgr EXCEPT !.contacted = @ \cup {serverName}]
        client == <<serverName, mgr.spawned[serverName] + 1>>
        m1 == [m0 EXCEPT !.spawned[serverName] = @ + 1]
    IN  IF serverName \notin cfg
        THEN [manager |-> m0, ok |-> FALSE,
              error |-> MCPClientError("No configuration found", serverName,
                                       Undefined, Undefined)]
        ELSE IF serverName \in world.connectable
        THEN [manager |-> [m1 EXCEPT !.opened = @ \cup {client},
                                     !.connections =
                               (serverName :> NewConnection(client)) @@ @],
              ok |-> TRUE, value |-> client]
        ELSE [manager |-> m1, ok |-> FALSE,
              error |-> MCPClientError("Failed to connect", serverName,
                                       Undefined, "connect failed")]

\* connect that stores the connection of a handshake that failed
connectCachesFailure(mgr, serverName, cfg, world) ==
    LET m0 == [mgr EXCEPT !.contacted = @ \cup {serverName}]
        client == <<serverName, mgr.spawned[serverName] + 1>>
        m1 == [m0 EXCEPT !.spawned[serverName] = @ + 1]
    IN  IF IsConnected(mgr, serverName)
        THEN [manager |-> m0, ok |-> TRUE,
              value |-> mgr.connections[serverName].client]
        ELSE IF serverName \notin cfg
        THEN [manager |-> m0, ok |-> FALSE,
              error |-> MCPClientError("No configuration found", serverName,
                                       Undefined, Undefined)]
        ELSE IF serverName \in world.connectable
        THEN [manager |-> [m1 EXCEPT !.opened = @ \cup {client},
                                     !.connections =
                               (serverName :> NewConnection(client)) @@ @],
              ok |-> TRUE, value |-> client]
        ELSE [manager |-> [m1 EXCEPT !.connections =
                               (serverName :> NewConnection(client)) @@ @],
              ok |-> FALSE,
              error |-> MCPClientError("Failed to connect", serverName,
                                       Undefined, "connect failed")]

\* MCPClientManager.connect: the client of a connected entry is returned as
\* it is; otherwise a process is launched for a configured server and, when
\* the handshake completes, the new connection replaces the entry
connect(mgr, serverName, cfg, world) ==
    LET m0 == [mgr EXCEPT !.contacted = @ \cup {serverName}]
        client == <<serverName, mgr.spawned[serverName] + 1>>
        m1 == [m0 EXCEPT !.spawned[serverName] = @ + 1]
    IN  IF IsConnected(mgr, serverName)
        THEN [manager |-> m0, ok |-> TRUE,
              value |-> mgr.connections[serverName].client]
        ELSE IF serverName \notin cfg
        THEN [manager |-> m0, ok |-> FALSE,
              error |-> MCPClientError("No configuration found", serverName,
                                       Undefined, Undefined)]
        ELSE IF serverName \in world.connectable
        THEN [manager |-> [m1 EXCEPT !.opened = @ \cup {client},
                                     !.connections =
                               (serverName :> NewConnection(client)) @@ @],
              ok |-> TRUE, value |-> client]
        ELSE [manager |-> m1, ok |-> FALSE,
              error |-> MCPClientError("Failed to connect", serverName,
                                       Undefined, "connect failed")]

\* the client slot of a connect call that created no client
NoClient == <<"", 0>>

\* connect up to its await of client.connect(transport): a call that finds
\* the name connected or not configured is done at once; any other call
\* has created a client and a transport and waits for the handshake
beginConnect(mgr, serverName, cfg) ==
    LET m0 == [mgr EXCEPT !.contacted = @ \cup {serverName}]
        client == <<serverName, mgr.spawned[serverName] + 1>>
    IN  IF IsConnected(mgr, serverName)
        THEN [manager |-> m0,
              call |-> [serverName |-> serverName, pc |-> "done", ok |-> TRUE,
                        launched |-> FALSE,
                        client |-> mgr.connections[serverName].client,
                        error |-> None]]
        ELSE IF serverName \notin cfg
        THEN [manager |-> m0,
              call |-> [serverName |-> serverName, pc |-> "done", ok |-> FALSE,
                        launched |-> FALSE, client |-> NoClient,
                        error |-> MCPClientError("No configuration found",
                                                 serverName, Undefined, Undefined)]]
        ELSE [manager |-> [m0 EXCEPT !.spawned[serverName] = @ + 1],
              call |-> [serverName |-> serverName, pc |-> "connecting",
                        ok |-> FALSE, launched |-> TRUE, client |-> client,
                        error |-> None]]

\* a connect that, once the handshake is over, keeps the entry another
\* call has stored in the meantime, closes its own client and returns the
\* client of that entry
finishConnectKeepsFirst(mgr, call, world) ==
    IF call.serverName \notin world.connectable
    THEN [manager |-> mgr,
          call |-> [call EXCEPT !.pc = "done", !.client = NoClient,
                                !.error = MCPClientError("Failed to connect",
                                              call.serverName, Undefined,
                                              "connect failed")]]
    ELSE IF IsConnected(mgr, call.serverName)
    THEN [manager |-> [mgr EXCEPT !.opened = @ \cup {call.client},
                                  !.closed = @ \cup {call.client}],
          call |-> [call EXCEPT !.pc = "done", !.ok = TRUE,
                                !.client = mgr.connections[call.serverName].client]]
    ELSE [manager |-> [mgr EXCEPT !.opened = @ \cup {call.client},
                                  !.connections =
                            (call.serverName :> NewConnection(call.client)) @@ @],
          call |-> [call EXCEPT !.pc = "done", !.ok = TRUE]]

\* connect from the end of the handshake: the new connection is stored
\* under the name, whatever the map holds for it by now, and the client is
\* returned; a failed handshake is rethrown as an MCPClientError
finishConnect(mgr, call, world) ==
    IF call.serverName \notin world.connectable
    THEN [manager |-> mgr,
          call |-> [call EXCEPT !.pc = "done", !.client = NoClient,
                                !.error = MCPClientError("Failed to connect",
                                              call.serverName, Undefined,
                                              "connect failed")]]
    ELSE [manager |-> [mgr EXCEPT !.opened = @ \cup {call.client},
                                  !.connections =
                            (call.serverName :> NewConnection(call.client)) @@ @],
          call |-> [call EXCEPT !.pc = "done", !.ok = TRUE]]

\* MCPClientManager.listTools: connect is awaited outside the try block, so
\* its error passes through; the catalog is cached on the connection
listTools(mgr, serverName, cfg, world) ==
    LET c == connect(mgr, serverName, cfg, world)
    IN  IF ~c.ok THEN c
        ELSE IF serverName \in world.listable
        THEN [manager |-> [c.manager EXCEPT
                  !.connections[serverName].cached = TRUE,
                  !.connections[serverName].tools = world.tools[serverName]],
              ok |-> TRUE, value |-> world.tools[serverName]]
        ELSE [manager |-> c.manager, ok |-> FALSE,
              error |-> MCPClientError("Failed to list tools", serverName,
                                       Undefined, "listTools failed")]

\* what the server answers to a tool call
Response(serverName, toolName, args) ==
    [server |-> serverName, tool |-> toolName, content |-> args]

\* MCPClientManager.callTool: connect is awaited outside the try block
callTool(mgr, serverName, toolName, args, cfg, world) ==
    LET c == connect(mgr, serverName, cfg, world)
    IN  IF ~c.ok THEN c
        ELSE IF serverName \in world.callable
        THEN [manager |-> c.manager, ok |-> TRUE,
              value |-> Response(serverName, toolName, args)]
        ELSE [manager |-> c.manager, ok |-> FALSE,
              error |-> MCPClientError("Failed to call tool", serverName,
                                       toolName, "callTool failed")]

\* a disconnect that lets a rejected close() escape
disconnectRethrows(mgr, serverName, world) ==
    IF ~IsConnected(mgr, serverName) THEN [manager |-> mgr, ok |-> TRUE]
    ELSE IF serverName \in world.closable
    THEN [manager |->
              [mgr EXCEPT !.connections[serverName].connected = FALSE,
                          !.closed = @ \cup {mgr.connections[serverName].client}],
          ok |-> TRUE]
    ELSE IF serverName \in world.torn
    THEN [manager |->
              [mgr EXCEPT !.closed = @ \cup {mgr.connections[serverName].client}],
          ok |-> FALSE]
    ELSE [manager |-> mgr, ok |-> FALSE]

\* MCPClientManager.disconnect: a close() that rejects is only logged and
\* leaves the entry connected; world.torn are the servers whose client is
\* closed although close() rejected.  ok says that the call resolved
disconnect(mgr, serverName, world) ==
    IF ~IsConnected(mgr, serverName) THEN [manager |-> mgr, ok |-> TRUE]
    ELSE IF serverName \in world.closable
    THEN [manager |->
              [mgr EXCEPT !.connections[serverName].connected = FALSE,
                          !.closed = @ \cup {mgr.connections[serverName].client}],
          ok |-> TRUE]
    ELSE IF serverName \in world.torn
    THEN [manager |->
              [mgr EXCEPT !.closed = @ \cup {mgr.connections[serverName].client}],
          ok |-> TRUE]
    ELSE [manager |-> mgr, ok |-> TRUE]

\* disconnect up to its await of connection.client.close(): a call that
\* finds no connected entry is done at once; any other call holds the
\* entry it read and waits for close(), the entry still marked connected
beginDisconnect(mgr, serverName) ==
    IF ~IsConnected(mgr, serverName)
    THEN [manager |-> mgr,
          call |-> [serverName |-> serverName, pc |-> "done", client |-> NoClient]]
    ELSE [manager |-> mgr,
          call |-> [serverName |-> serverName, pc |-> "closing",
                    client |-> mgr.connections[serverName].client]]

\* disconnect from the end of close(): connected = false is written to the
\* entry the call read, which is the map's entry unless connect has stored
\* a new one since; a close() that rejects is only logged
finishDisconnect(mgr, call, world) ==
    LET name == call.serverName
        mine == /\ name \in DOMAIN mgr.connections
                /\ mgr.connections[name].client = call.client
        marked == IF mine THEN [mgr EXCEPT !.connections[name].connected = FALSE]
                  ELSE mgr
    IN  IF name \in world.closable
        THEN [manager |-> [marked EXCEPT !.closed = @ \cup {call.client}],
              call |-> [call EXCEPT !.pc = "done"]]
        ELSE IF name \in world.torn
        THEN [manager |-> [mgr EXCEPT !.closed = @ \cup {call.client}],
              call |-> [call EXCEPT !.pc = "done"]]
        ELSE [manager |-> mgr, call |-> [call EXCEPT !.pc = "done"]]

\* MCPClientManager.disconnectAll: one disconnect per key of the map, and
\* Promise.all resolves when each of them resolved
RECURSIVE DisconnectEach(_, _, _)
DisconnectEach(acc, names, world) ==
    IF names = {} THEN acc
    ELSE LET n == CHOOSE n \in names : TRUE
             d == disconnect(acc.manager, n, world)
         IN  DisconnectEach([manager |-> d.manager, ok |-> acc.ok /\ d.ok],
                            names \ {n}, world)

disconnectAll(mgr, world) ==
    DisconnectEach([manager |-> mgr, ok |-> TRUE], DOMAIN mgr.connections, world)

\* a loop over the required tools that leaves missingTools alone
RECURSIVE CheckToolsUnlisted(_, _, _, _)
CheckToolsUnlisted(r, req, tools, available) ==
    IF tools = <<>> THEN r
    ELSE LET tool == Head(tools)
             r1 == IF tool \in available THEN r
                   ELSE IF req.optional
                   THEN [r EXCEPT !.warnings =
                            Append(@, Msg("Optional tool not found", tool, req.name))]
                   ELSE [r EXCEPT !.valid = FALSE,
                                  !.errors =
                            Append(@, Msg("Required tool not found", tool, req.name))]
         IN  CheckToolsUnlisted(r1, req, Tail(tools), available)

\* the loop over the required tools of one server that could be listed
RECURSIVE CheckTools(_, _, _, _)
CheckTools(r, req, tools, available) ==
    IF tools = <<>> THEN r
    ELSE LET tool == Head(tools)
             r1 == IF tool \in available THEN r
                   ELSE IF req.optional
                   THEN [r EXCEPT !.warnings =
                            Append(@, Msg("Optional tool not found", tool, req.name))]
                   ELSE [r EXCEPT !.valid = FALSE,
                                  !.errors =
                            Append(@, Msg("Required tool not found", tool, req.name)),
                                  !.missingTools =
                            Append(@, [server |-> req.name, tool |-> tool])]
         IN  CheckTools(r1, req, Tail(tools), available)

\* ServerMissing that leaves the name out of missingServers
ServerMissingUnlisted(r, req, optionalText, requiredText) ==
    IF req.optional
    THEN [r EXCEPT !.warnings = Append(@, Msg(optionalText, req.name, ""))]
    ELSE [r EXCEPT !.valid = FALSE,
                   !.errors = Append(@, Msg(requiredText, req.name, ""))]

\* ServerMissing that records an optional server as a required one
ServerMissingIgnoresOptional(r, req, optionalText, requiredText) ==
    [r EXCEPT !.valid = FALSE,
              !.errors = Append(@, Msg(requiredText, req.name, "")),
              !.missingServers = Append(@, req.name)]

\* the result of a requirement whose server is not configured (kind
\* "not configured") or whose listTools threw (kind "Failed to connect to")
ServerMissing(r, req, optionalText, requiredText) ==
    IF req.optional
    THEN [r EXCEPT !.warnings = Append(@, Msg(optionalText, req.name, ""))]
    ELSE [r EXCEPT !.valid = FALSE,
                   !.errors = Append(@, Msg(requiredText, req.name, "")),
                   !.missingServers = Append(@, req.name)]

\* a validation that stops at the first requirement that is not met
validateRequirementsStopsAtFirst(acc, requirements, cfg, world) ==
    IF requirements = <<>> THEN acc
    ELSE LET req == Head(requirements)
             listed == listTools(acc.manager, req.name, cfg, world)
         IN  IF req.name \notin cfg
             THEN [acc EXCEPT !.result =
                      ServerMissing(@, req,
                          "Optional MCP server not configured",
                          "Required MCP server not configured")]
             ELSE IF listed.ok
             THEN [result |->
                       CheckTools([acc.result EXCEPT !.availableServers =
                                       Append(@, req.name)],
                                  req, req.tools, listed.value),
                   manager |-> listed.manager]
             ELSE [result |->
                       ServerMissing(acc.result, req,
                           "Failed to connect to optional MCP server",
                           "Failed to connect to required MCP server"),
                   manager |-> listed.manager]

\* MCPClientManager.validateRequirements: acc holds the result built so far
\* and the manager, cfg is this.config
RECURSIVE validateRequirements(_, _, _, _)
validateRequirements(acc, requirements, cfg, world) ==
    IF requirements = <<>> THEN acc
    ELSE LET req == Head(requirements)
             listed == listTools(acc.manager, req.name, cfg, world)
             acc1 == IF req.name \notin cfg
                     THEN [acc EXCEPT !.result =
                              ServerMissing(@, req,
                                  "Optional MCP server not configured",
                                  "Required MCP server not configured")]
                     ELSE IF listed.ok
                     THEN [result |->
                               CheckTools([acc.result EXCEPT !.availableServers =
                                               Append(@, req.name)],
                                          req, req.tools, listed.value),
                           manager |-> listed.manager]
                     ELSE [result |->
                               ServerMissing(acc.result, req,
                                   "Failed to connect to optional MCP server",
                                   "Failed to connect to required MCP server"),
                           manager |-> listed.manager]
         IN  validateRequirements(acc1, Tail(requirements), cfg, world)

\* a test that takes a variable that is present for one that is set
EnvSetAnyValue(env, envVar) == envVar \in DOMAIN env

\* process.env[envVar] is truthy: the variable is present and not empty
EnvSet(env, envVar) == envVar \in DOMAIN env /\ env[envVar] # ""

\* the required environment variables that are not set, in order
RECURSIVE EnvErrors(_, _)
EnvErrors(environment, env) ==
    IF environment = <<>> THEN <<>>
    ELSE (IF EnvSet(env, Head(environment)) THEN <<>>
          ELSE <<Msg("Required environment variable not set", Head(environment), "")>>)
         \o EnvErrors(Tail(environment), env)

\* a combination that adds the environment errors and keeps valid as the
\* server checks left it
validateWorkflowRequirementsKeepsValid(workflow, mgr, cfg, world) ==
    LET mcp == validateRequirements([result |-> EmptyReport, manager |-> mgr],
                                    workflow.requirements.mcpServers, cfg, world)
        mcpValidation == mcp.result
        envErrors == EnvErrors(workflow.requirements.environment, world.env)
    IN  [result |->
             [mcpValidation EXCEPT !.errors = mcpValidation.errors \o envErrors],
         manager |-> mcp.manager]

\* validateWorkflowRequirements of a workflow [id, requirements] on a
\* manager: the combined result, and the manager as the call leaves it
validateWorkflowRequirements(workflow, mgr, cfg, world) ==
    LET mcp == validateRequirements([result |-> EmptyReport, manager |-> mgr],
                                    workflow.requirements.mcpServers, cfg, world)
        mcpValidation == mcp.result
        envErrors == EnvErrors(workflow.requirements.environment, world.env)
    IN  [result |->
             [mcpValidation EXCEPT !.valid = mcpValidation.valid /\ envErrors = <<>>,
                                   !.errors = mcpValidation.errors \o envErrors],
         manager |-> mcp.manager]

\* the WorkflowDefinition registered under a name
Workflow(workflowId) == [id |-> workflowId, requirements |-> Requirements(workflowId)]

\* new RequirementError(message, validation.errors, workflow.id)
RequirementError(validation, workflowId) ==
    [name |-> "RequirementError", missingRequirements |-> validation.errors,
     workflowId |-> workflowId]

\* new McpError(code, message)
McpError(code, message) == [name |-> "McpError", code |-> code, message |-> message]

(***************************************************************************)
(* The workflow graphs and their nodes                                     *)
(***************************************************************************)
Restrict(f, keys) == [k \in (DOMAIN f) \cap keys |-> f[k]]

\* JSON null, as it may arrive in the arguments of a call
Null == "<null>"

\* the fields whose values are strings (or null)
StringFields ==
    {"summary", "description", "projectKey", "context", "atlassianPrompt", "quote",
     "ticketKey", "ticketUrl", "ticketId", "enhancedQuote", "voiceDirections",
     "audioId", "audioPath", "currentStep"}

\* s[k] is null
IsNull(s, k) == k \in StringFields /\ s[k] = Null

\* the fields of s that are not null
NonNull(s) == Restrict(s, {k \in DOMAIN s : ~IsNull(s, k)})

\* state.field in a condition: the modelled values are never "", 0 or false,
\* so a field is truthy exactly when it is defined and not null
Truthy(s, k) == k \in DOMAIN s /\ ~IsNull(s, k)

\* the channels of the StateAnnotation of each graph
JiraAudioQuoteChannels ==
    {"currentStep", "completedSteps", "summary", "description", "projectKey",
     "context", "atlassianPrompt", "quote", "ticketKey", "ticketUrl",
     "enhancedQuote", "voiceDirections", "audioId", "audioPath", "resuming",
     "error", "errors", "status", "workflowId", "resumeToken", "action", "message"}

AudioQuoteAppendChannels ==
    {"currentStep", "completedSteps", "ticketKey", "ticketUrl", "quote",
     "projectKey", "context", "enhancedQuote", "voiceDirections", "audioId",
     "audioPath", "atlassianPrompt", "error", "errors"}

CreateJiraTicketChannels ==
    {"currentStep", "completedSteps", "summary", "description", "projectKey",
     "context", "atlassianPrompt", "nextWorkflow", "nextWorkflowDescription",
     "error", "errors"}

Channels(workflowId) ==
    CASE workflowId = JiraAudioQuote -> JiraAudioQuoteChannels
      [] workflowId = CreateJiraTicket -> CreateJiraTicketChannels
      [] OTHER -> AudioQuoteAppendChannels

\* what a channel's reducer takes from a written value: the reducer
\* right ?? left of create_audio_quote_and_append_to_ticket passes over a
\* null, a channel without reducer takes whatever is written
Reduce(workflowId, update) ==
    IF workflowId = AudioQuoteAppend THEN NonNull(update) ELSE update

\* the channels declared with a default
ChannelDefaults(workflowId) ==
    IF workflowId = AudioQuoteAppend
    THEN [currentStep |-> "start", completedSteps |-> <<>>, errors |-> <<>>]
    ELSE <<>>

\* the state graph.invoke(input) starts from: the input's declared channels
\* over the defaults; a key that is no channel is not part of the state
GraphInput(workflowId, input) ==
    Reduce(workflowId, Restrict(input, Channels(workflowId)))
        @@ ChannelDefaults(workflowId)

\* a merge that keeps nothing but what the update writes
ApplyUpdateDropsRest(workflowId, s, update) ==
    Reduce(workflowId, Restrict(update, Channels(workflowId)))

\* a node's update written to the channels: each written channel takes the
\* new value (no reducer, or the reducer right ?? left)
ApplyUpdate(workflowId, s, update) ==
    Reduce(workflowId, Restrict(update, Channels(workflowId))) @@ s

\* a catch block that also resets completedSteps
ErrorUpdateResetsSteps(s, step, prefix, message) ==
    [currentStep |-> "error",
     error |-> [prefix |-> prefix, message |-> message],
     errors |-> Append(IF "errors" \in DOMAIN s THEN s.errors ELSE <<>>,
                       [step |-> step, error |-> message]),
     completedSteps |-> <<>>]

\* a catch block that starts the errors list anew
ErrorUpdateForgetsErrors(s, step, prefix, message) ==
    [currentStep |-> "error",
     error |-> [prefix |-> prefix, message |-> message],
     errors |-> <<[step |-> step, error |-> message]>>]

\* what every node returns from its catch block
ErrorUpdate(s, step, prefix, message) ==
    [currentStep |-> "error",
     error |-> [prefix |-> prefix, message |-> message],
     errors |-> Append(IF "errors" \in DOMAIN s THEN s.errors ELSE <<>>,
                       [step |-> step, error |-> message])]

NotIterable == "state.completedSteps is not iterable"

generatePromptNode(s, outcome) ==
    IF outcome = "fail"
    THEN ErrorUpdate(s, "generatePrompt", "Failed to generate prompt", "callTool failed")
    ELSE IF "completedSteps" \notin DOMAIN s
    THEN ErrorUpdate(s, "generatePrompt", "Failed to generate prompt", NotIterable)
    ELSE [currentStep |-> "completed",
          completedSteps |-> Append(s.completedSteps, "generatePrompt"),
          atlassianPrompt |-> "prompt"]

\* a processQuote that sets completedSteps to its own name alone
processQuoteNodeSetsOwnStep(s, outcome) ==
    [currentStep |-> "generateAudio", completedSteps |-> <<"processQuote">>,
     enhancedQuote |-> "enhanced quote", voiceDirections |-> "voice directions"]

\* enhanceQuoteForAudio falls back to the original quote and never throws
processQuoteNode(s, outcome) ==
    IF ~Truthy(s, "quote")
    THEN ErrorUpdate(s, "processQuote", "Failed to process quote",
                     "Quote is required but not provided")
    ELSE IF "completedSteps" \notin DOMAIN s
    THEN ErrorUpdate(s, "processQuote", "Failed to process quote", NotIterable)
    ELSE [currentStep |-> "generateAudio",
          completedSteps |-> Append(s.completedSteps, "processQuote"),
          enhancedQuote |-> "enhanced quote",
          voiceDirections |-> "voice directions"]

generateAudioNode(s, outcome) ==
    IF ~Truthy(s, "enhancedQuote")
    THEN ErrorUpdate(s, "generateAudio", "Failed to generate audio",
                     "Enhanced quote is required but not provided")
    ELSE IF outcome = "fail"
    THEN ErrorUpdate(s, "generateAudio", "Failed to generate audio", "callTool failed")
    ELSE [currentStep |-> "downloadAudio",
          completedSteps |->
              Append(IF "completedSteps" \in DOMAIN s THEN s.completedSteps ELSE <<>>,
                     "generateAudio"),
          audioId |-> "generated audio id"]

downloadAudioNode(s, outcome) ==
    IF ~Truthy(s, "audioId")
    THEN ErrorUpdate(s, "downloadAudio", "Failed to download audio",
                     "Audio ID is required but not provided")
    ELSE IF ~Truthy(s, "ticketKey")
    THEN ErrorUpdate(s, "downloadAudio", "Failed to download audio",
                     "Ticket key is required but not provided")
    ELSE IF outcome = "fail"
    THEN ErrorUpdate(s, "downloadAudio", "Failed to download audio", "callTool failed")
    ELSE IF "completedSteps" \notin DOMAIN s
    THEN ErrorUpdate(s, "downloadAudio", "Failed to download audio", NotIterable)
    ELSE [currentStep |-> "completed",
          completedSteps |-> Append(s.completedSteps, "downloadAudio"),
          audioPath |-> "downloaded audio path"]
         @@ Restrict(s, {"ticketKey", "ticketUrl", "quote", "projectKey", "context",
                         "enhancedQuote", "voiceDirections", "audioId"})

generateFileAttachmentPromptNode(s, outcome) ==
    IF ~Truthy(s, "audioPath")
    THEN ErrorUpdate(s, "generateFileAttachmentPrompt",
                     "Failed to generate file attachment prompt",
                     "Audio file path is required but not provided")
    ELSE IF ~Truthy(s, "ticketKey")
    THEN ErrorUpdate(s, "generateFileAttachmentPrompt",
                     "Failed to generate file attachment prompt",
                     "Ticket key is required but not provided")
    ELSE IF outcome = "fail"
    THEN ErrorUpdate(s, "generateFileAttachmentPrompt",
                     "Failed to generate file attachment prompt", "callTool failed")
    ELSE [currentStep |-> "completed",
          completedSteps |-> Append(s.completedSteps, "generateFileAttachmentPrompt"),
          atlassianPrompt |-> "prompt"]
         @@ Restrict(s, {"ticketKey", "ticketUrl", "quote", "projectKey", "context",
                         "enhancedQuote", "voiceDirections", "audioId", "audioPath"})

\* the tool a node calls through the mcpManager of its graph, or None when
\* it returns before the call
NodeTool(node, s) ==
    CASE node = "generatePrompt" ->
             [server |-> "atlassian-prompts", tool |-> "generate_prompt"]
      [] node = "processQuote" -> None
      [] node = "generateAudio" ->
             IF Truthy(s, "enhancedQuote")
             THEN [server |-> "elevenlabs", tool |-> "create_wise_quote_audio"]
             ELSE None
      [] node = "downloadAudio" ->
             IF Truthy(s, "audioId") /\ Truthy(s, "ticketKey")
             THEN [server |-> "elevenlabs", tool |-> "download_audio"]
             ELSE None
      [] node = "generateFileAttachmentPrompt" ->
             IF Truthy(s, "audioPath") /\ Truthy(s, "ticketKey")
             THEN [server |-> "atlassian-prompts", tool |-> "generate_prompt"]
             ELSE None

\* the servers during a node's tool call: the call is answered or rejected
NodeWorld(outcome) ==
    [connectable |-> Servers,
     callable |-> IF outcome = "ok" THEN Servers ELSE {}]

\* what a node sees of its tool call: the call fails when the server
\* rejects it and also when the manager has no configuration for the server
NodeOutcome(mgr, node, s, cfg, outcome) ==
    IF NodeTool(node, s) = None THEN outcome
    ELSE IF callTool(mgr, NodeTool(node, s).server, NodeTool(node, s).tool, <<>>,
                     cfg, NodeWorld(outcome)).ok
    THEN "ok" ELSE "fail"

\* the manager of a graph after one of its nodes has run
ManagerAfterNode(mgr, node, s, cfg, outcome) ==
    IF NodeTool(node, s) = None THEN mgr
    ELSE callTool(mgr, NodeTool(node, s).server, NodeTool(node, s).tool, <<>>,
                  cfg, NodeWorld(outcome)).manager

\* what the graph's wrapper around a node returns: the generatePrompt node
\* of create_jira_ticket adds the workflow to call next
WrapUpdate(workflowId, node, update) ==
    IF workflowId = CreateJiraTicket /\ node = "generatePrompt"
    THEN [nextWorkflow |-> AudioQuoteAppend,
          nextWorkflowDescription |-> "call this workflow after creating the ticket"]
         @@ update
    ELSE update

NodeUpdate(node, s, outcome) ==
    CASE node = "generatePrompt" -> generatePromptNode(s, outcome)
      [] node = "processQuote" -> processQuoteNode(s, outcome)
      [] node = "generateAudio" -> generateAudioNode(s, outcome)
      [] node = "downloadAudio" -> downloadAudioNode(s, outcome)
      [] node = "generateFileAttachmentPrompt" ->
             generateFileAttachmentPromptNode(s, outcome)

\* an entry edge that looks at the resuming marker alone
EntryNodeIgnoresQuote(workflowId, s) ==
    IF workflowId = JiraAudioQuote
    THEN IF Truthy(s, "resuming") THEN "processQuote" ELSE "generatePrompt"
    ELSE IF workflowId = CreateJiraTicket THEN "generatePrompt"
    ELSE "processQuote"

\* the edge out of START
EntryNode(workflowId, s) ==
    IF workflowId = JiraAudioQuote
    THEN IF Truthy(s, "resuming") /\ Truthy(s, "quote")
         THEN "processQuote" ELSE "generatePrompt"
    ELSE IF workflowId = CreateJiraTicket THEN "generatePrompt"
    ELSE "processQuote"

\* edges that end the append workflow after a node other than the last
NextNodeEndsEarly(workflowId, node) ==
    IF workflowId = CreateJiraTicket
    THEN "END"
    ELSE IF workflowId = JiraAudioQuote
    THEN CASE node = "generatePrompt" -> "END"
           [] node = "processQuote" -> "generateAudio"
           [] node = "generateAudio" -> "downloadAudio"
           [] node = "downloadAudio" -> "END"
    ELSE CASE node = "processQuote" -> "generateAudio"
           [] node = "generateAudio" -> "downloadAudio"
           [] node = "downloadAudio" -> "END"
           [] node = "generateFileAttachmentPrompt" -> "END"

\* edges that lead from the last audio node back to the first
NextNodeLoopsBack(workflowId, node) ==
    IF workflowId = CreateJiraTicket
    THEN "END"
    ELSE IF workflowId = JiraAudioQuote
    THEN CASE node = "generatePrompt" -> "END"
           [] node = "processQuote" -> "generateAudio"
           [] node = "generateAudio" -> "downloadAudio"
           [] node = "downloadAudio" -> "processQuote"
    ELSE CASE node = "processQuote" -> "generateAudio"
           [] node = "generateAudio" -> "downloadAudio"
           [] node = "downloadAudio" -> "generateFileAttachmentPrompt"
           [] node = "generateFileAttachmentPrompt" -> "END"

\* the edge out of a node
NextNode(workflowId, node) ==
    IF workflowId = CreateJiraTicket
    THEN "END"
    ELSE IF workflowId = JiraAudioQuote
    THEN CASE node = "generatePrompt" -> "END"
           [] node = "processQuote" -> "generateAudio"
           [] node = "generateAudio" -> "downloadAudio"
           [] node = "downloadAudio" -> "END"
    ELSE CASE node = "processQuote" -> "generateAudio"
           [] node = "generateAudio" -> "downloadAudio"
           [] node = "downloadAudio" -> "generateFileAttachmentPrompt"
           [] node = "generateFileAttachmentPrompt" -> "END"

\* which of its three layouts formatWorkflowResult gives the result, and the
\* steps it lists
formatWorkflowResult(result) ==
    [layout |-> IF "status" \in DOMAIN result /\ result.status = "awaiting_llm_action"
                THEN "paused"
                ELSE IF Truthy(result, "error") THEN "failed" ELSE "completed",
     completedSteps |-> IF "completedSteps" \in DOMAIN result
                        THEN result.completedSteps ELSE <<>>]

(***************************************************************************)
(* Inputs of the store's API                                               *)
(***************************************************************************)
\* the optional ttl argument of save: omitted, or a number of milliseconds
TtlArgs == {[given |-> FALSE]} \cup {[given |-> TRUE, ms |-> n] : n \in {0, 1}}

\* snapshots of a create_jira_with_audio_quote execution after generatePrompt
SnapshotNoQuote ==
    [currentStep |-> "completed", completedSteps |-> <<"generatePrompt">>,
     summary |-> "summary", description |-> "description", projectKey |-> "PROJ",
     atlassianPrompt |-> "prompt"]

\* a snapshot of a create_audio_quote_and_append_to_ticket execution after
\* processQuote
SnapshotAppend ==
    [currentStep |-> "generateAudio", completedSteps |-> <<"processQuote">>,
     ticketKey |-> "TEST-123", quote |-> "quote", enhancedQuote |-> "enhanced quote",
     voiceDirections |-> "voice directions", errors |-> <<>>]

SnapshotQuote == [quote |-> "quote"] @@ SnapshotNoQuote

\* what save is called with: a workflow id and a snapshot of its state
SaveInputs ==
    {<<JiraAudioQuote, SnapshotQuote>>, <<AudioQuoteAppend, SnapshotAppend>>}

\* a workflow id that the registry does not hold (any more), and a snapshot
\* saved under it
RetiredWorkflow == "retired_workflow"

SnapshotRetired == [currentStep |-> "start", completedSteps |-> <<>>]

\* the snapshots that wait in the store while the handler is exercised
PausedInputs == SaveInputs \cup {<<RetiredWorkflow, SnapshotRetired>>}

\* the clock advances by a millisecond or by the default ttl
TickSteps == {1, DEFAULT_TTL}

TicksSoFar == (now % DEFAULT_TTL) + (now \div DEFAULT_TTL)

(***************************************************************************)
(* The store's operations as actions                                       *)
(***************************************************************************)
Save(workflowId, state, ttl) ==
    /\ nextUuid <= MaxSaves
    /\ states' = SaveStates(states, workflowId, nextUuid, state, ttl, now)
    /\ nextUuid' = nextUuid + 1
    /\ ret' = [op |-> "save", token |-> ResumeTokenOf(workflowId, nextUuid),
               swept |-> DOMAIN states \ DOMAIN cleanupExpired(states, now)]
    /\ issued' = Append(issued, [token |-> ResumeTokenOf(workflowId, nextUuid),
                                 workflowId |-> workflowId, state |-> state, ttl |-> ttl,
                                 timestamp |-> now, expiresAt |-> SaveExpiresAt(now, ttl)])
    /\ UNCHANGED <<now, deleted, config, calls, clientVars>>

Load(tok) ==
    /\ states' = LoadStates(states, tok, now)
    /\ ret' = [op |-> "load", token |-> tok, value |-> LoadValue(states, tok, now)]
    /\ UNCHANGED <<now, nextUuid, issued, deleted, config, calls, clientVars>>

Delete(tok) ==
    /\ states' = DeleteStates(states, tok)
    /\ ret' = [op |-> "delete", token |-> tok, value |-> tok \in DOMAIN states]
    /\ deleted' = deleted \cup {tok}
    /\ UNCHANGED <<now, nextUuid, issued, config, calls, clientVars>>

Has(tok) ==
    /\ states' = HasStates(states, tok, now)
    /\ ret' = [op |-> "has", token |-> tok, value |-> HasValue(states, tok, now)]
    /\ UNCHANGED <<now, nextUuid, issued, deleted, config, calls, clientVars>>

GetWorkflowId(tok) ==
    /\ ret' = [op |-> "getWorkflowId", token |-> tok,
               value |-> GetWorkflowIdValue(states, tok)]
    /\ UNCHANGED <<states, now, nextUuid, issued, deleted, config, calls, clientVars>>

Count ==
    /\ states' = cleanupExpired(states, now)
    /\ ret' = [op |-> "count", value |-> Cardinality(DOMAIN cleanupExpired(states, now))]
    /\ UNCHANGED <<now, nextUuid, issued, deleted, config, calls, clientVars>>

GetActiveTokens ==
    /\ states' = cleanupExpired(states, now)
    /\ ret' = [op |-> "getActiveTokens", value |-> DOMAIN cleanupExpired(states, now)]
    /\ UNCHANGED <<now, nextUuid, issued, deleted, config, calls, clientVars>>

Tick(d) ==
    /\ TicksSoFar < MaxTicks
    /\ now' = now + d
    /\ ret' = [op |-> "none"]
    /\ UNCHANGED <<states, nextUuid, issued, deleted, config, calls, clientVars>>

(***************************************************************************)
(* The CallToolRequest handler (index.ts)                                  *)
(***************************************************************************)
\* the token slot of a call that is no resume
NoToken == <<"", 0>>

\* one invocation of the handler: its request, where it stands (pc), and
\* what it has done so far
NewCall(kind, workflowId, tok, input) ==
    [kind |-> kind, workflowId |-> workflowId, token |-> tok, input |-> input,
     pc |-> "start", snapshot |-> <<>>, validation |-> None, graphBuilt |-> FALSE,
     resumed |-> <<>>, state |-> <<>>, next |-> "END", nodesRun |-> <<>>, completed |-> <<>>,
     thrown |-> None, rejection |-> None, result |-> None,
     mcpManager |-> NewManager, update |-> <<>>]

\* the catch block: an McpError is rethrown, a RequirementError becomes an
\* InvalidRequest whose message lists the report's errors
CatchError(error) ==
    IF error.name = "McpError" THEN error
    ELSE McpError("InvalidRequest", error.missingRequirements)

Throw(call, error) ==
    [call EXCEPT !.pc = "done", !.thrown = error, !.rejection = CatchError(error)]

\* workflow.createGraph() and the start of graph.invoke(input)
StartGraph(call, input) ==
    LET s == GraphInput(call.workflowId, input)
    IN  [call EXCEPT !.graphBuilt = TRUE, !.pc = "graph", !.state = s,
                     !.mcpManager = NewManager,
                     !.next = EntryNode(call.workflowId, s)]

\* a handler that builds the graph whatever the report says
AfterValidationIgnoresReport(call, validation) ==
    StartGraph([call EXCEPT !.validation = validation], call.input)

\* if (!validation.valid) throw new RequirementError(...), else run the graph
AfterValidation(call, validation) ==
    IF ~validation.valid
    THEN Throw([call EXCEPT !.validation = validation],
               RequirementError(validation, call.workflowId))
    ELSE StartGraph([call EXCEPT !.validation = validation], call.input)

\* a merge that leaves the caller's results out
ResumedStateWithoutResults(savedState, results) == [resuming |-> TRUE] @@ savedState

\* { ...savedState, ...results, resuming: true }
ResumedState(savedState, results) == [resuming |-> TRUE] @@ results @@ savedState

\* a resume path that does not check what load returned
ResumeCallUnchecked(m, n, tok, results) ==
    StartGraph(NewCall("resume", JiraAudioQuote, tok, results), results)

\* the resume path up to its await of graph.invoke
ResumeCall(m, n, tok, results) ==
    LET savedState == LoadValue(m, tok, n)
        workflowId == GetWorkflowIdValue(LoadStates(m, tok, n), tok)
        call == NewCall("resume", "", tok, results)
    IN  IF savedState = None
        THEN Throw(call, McpError("InvalidRequest", "Invalid or expired resume token"))
        ELSE IF workflowId = None
        THEN Throw(call, McpError("InvalidRequest",
                                  "Could not determine workflow from resume token"))
        ELSE IF workflowId.id \notin WorkflowIds
        THEN Throw(call, McpError("MethodNotFound", "Workflow not found"))
        ELSE StartGraph([call EXCEPT !.workflowId = workflowId.id,
                                     !.snapshot = savedState,
                                     !.resumed = ResumedState(savedState, results)],
                        ResumedState(savedState, results))

\* the invoke path up to its await of graph.invoke
InvokeCall(name, args, mgr, cfg, world) ==
    LET call == NewCall("invoke", name, NoToken, args)
    IN  IF name \notin WorkflowIds
        THEN Throw(call, McpError("MethodNotFound", "Unknown tool"))
        ELSE AfterValidation(call,
                 validateWorkflowRequirements(Workflow(name), mgr, cfg, world).result)

\* the manager as the invoke path leaves it
ManagerAfterInvoke(name, mgr, cfg, world) ==
    IF name \notin WorkflowIds THEN mgr
    ELSE validateWorkflowRequirements(Workflow(name), mgr, cfg, world).manager

\* workflowStateManager.delete(resumeToken) once graph.invoke has returned
StatesAfterInvoke(m, call) ==
    IF call.kind = "resume" THEN DeleteStates(m, call.token) ELSE m

\* a workflow tool is called
InvokeWorkflow(name, args, world) ==
    /\ Len(calls) < MaxCalls
    /\ calls' = Append(calls, InvokeCall(name, args, manager, config, world))
    /\ manager' = ManagerAfterInvoke(name, manager, config, world)
    /\ ret' = [op |-> "none"]
    /\ UNCHANGED <<states, now, nextUuid, issued, deleted, config, clientRet, connects>>

\* resume_workflow is called
ResumeWorkflow(tok, results) ==
    /\ Len(calls) < MaxCalls
    /\ states' = LoadStates(states, tok, now)
    /\ calls' = Append(calls, ResumeCall(states, now, tok, results))
    /\ ret' = [op |-> "load", token |-> tok, value |-> LoadValue(states, tok, now)]
    /\ UNCHANGED <<now, nextUuid, issued, deleted, config, clientVars>>

\* the graph of call i runs its next node; outcome is what the node's MCP
\* tool call does
RunNode(i, outcome) ==
    /\ calls[i].pc = "graph"
    /\ calls[i].next # "END"
    /\ LET c == calls[i]
           update == WrapUpdate(c.workflowId, c.next,
                          NodeUpdate(c.next, c.state,
                                     NodeOutcome(c.mcpManager, c.next, c.state,
                                                 config, outcome)))
       IN  calls' = [calls EXCEPT ![i] =
               [c EXCEPT !.state = ApplyUpdate(c.workflowId, c.state, update),
                         !.update = update,
                         !.nodesRun = Append(@, c.next),
                         !.mcpManager = ManagerAfterNode(@, c.next, c.state,
                                                         config, outcome),
                         !.completed = IF update.currentStep = "error"
                                       THEN @ ELSE Append(@, c.next),
                         !.next = NextNode(c.workflowId, c.next)]]
    /\ ret' = [op |-> "none"]
    /\ UNCHANGED <<states, now, nextUuid, issued, deleted, config, clientVars>>

\* graph.invoke of call i has returned: a resume deletes its token, and the
\* result is formatted
Return(i) ==
    /\ calls[i].pc = "graph"
    /\ calls[i].next = "END"
    /\ calls' = [calls EXCEPT ![i] =
           [@ EXCEPT !.pc = "done", !.result = formatWorkflowResult(calls[i].state)]]
    /\ states' = StatesAfterInvoke(states, calls[i])
    /\ deleted' = IF calls[i].kind = "resume"
                  THEN deleted \cup {calls[i].token} ELSE deleted
    /\ ret' = IF calls[i].kind = "resume"
              THEN [op |-> "delete", token |-> calls[i].token,
                    value |-> calls[i].token \in DOMAIN states]
              ELSE [op |-> "none"]
    /\ UNCHANGED <<now, nextUuid, issued, config, clientVars>>

(***************************************************************************)
(* Inputs of the handler                                                   *)
(***************************************************************************)
AllTools ==
    [s \in Servers |-> IF s = "elevenlabs"
                       THEN {"create_wise_quote_audio", "download_audio"}
                       ELSE {"generate_prompt"}]

\* every server answers with all its tools and the environment is set
WorldOk ==
    [connectable |-> Servers, listable |-> Servers, tools |-> AllTools,
     env |-> [k \in {"OPENAI_API_KEY"} |-> "sk-key"]]

\* atlassian-prompts does not answer, elevenlabs lacks download_audio and
\* OPENAI_API_KEY is not set
WorldDegraded ==
    [connectable |-> {"elevenlabs"}, listable |-> {"elevenlabs"},
     tools |-> [AllTools EXCEPT !["elevenlabs"] = {"create_wise_quote_audio"}],
     env |-> [k \in {} |-> ""]]

Worlds == {WorldOk, WorldDegraded}

ConfigInputs == {Servers, {"elevenlabs"}}

\* tool name and arguments of a workflow call
InvokeInputs ==
    {<<JiraAudioQuote, [summary |-> "summary", description |-> "description",
                        projectKey |-> "PROJ", completedSteps |-> <<>>]>>,
     <<JiraAudioQuote, [summary |-> "summary", description |-> "description",
                        projectKey |-> "PROJ", quote |-> "quote"]>>,
     <<AudioQuoteAppend, [ticketKey |-> "TEST-123", quote |-> "quote"]>>,
     <<"unknown_tool", <<>>>>}

\* the results object of a resume call
ResumeInputs ==
    {[ticketKey |-> "TEST-123", ticketUrl |-> "url"],
     [ticketKey |-> Null, ticketUrl |-> "url"],
     [ticketKey |-> "TEST-123", ticketId |-> "X-1", enhancedQuote |-> "supplied quote",
      completedSteps |-> <<"createTicket">>],
     [quote |-> Null]}

Outcomes == {"ok", "fail"}

\* the ttl a snapshot is saved with and the clock steps while it waits
PausedTtlArgs == {[given |-> FALSE], [given |-> TRUE, ms |-> 1]}

PausedTickSteps == {1}

\* resume tokens a caller may present: the issued ones and one never issued
UnknownToken == ResumeTokenOf(JiraAudioQuote, 0)

TokenInputs == {issued[i].token : i \in DOMAIN issued} \cup {UnknownToken}

InitStore ==
    /\ states = <<>>
    /\ now = 0
    /\ nextUuid = 1
    /\ ret = [op |-> "none"]
    /\ issued = <<>>
    /\ deleted = {}

\* a manager that has connected to nothing yet
InitClient ==
    /\ manager = NewManager
    /\ clientRet = [op |-> "none"]
    /\ connects = <<>>

InitIdle ==
    /\ InitStore
    /\ InitClient
    /\ config = Servers
    /\ calls = <<>>

NextStore ==
    \/ \E in \in SaveInputs, ttl \in TtlArgs : Save(in[1], in[2], ttl)
    \/ \E tok \in TokenInputs : Load(tok)
    \/ \E tok \in TokenInputs : Delete(tok)
    \/ \E tok \in TokenInputs : Has(tok)
    \/ \E tok \in TokenInputs : GetWorkflowId(tok)
    \/ Count
    \/ GetActiveTokens
    \/ \E d \in TickSteps : Tick(d)

\* the store driven through its API alone
SpecStore == InitIdle /\ [][NextStore]_vars

Init ==
    /\ InitStore
    /\ InitClient
    /\ config \in ConfigInputs
    /\ calls = <<>>

Next ==
    \/ nextUuid <= MaxPaused /\
           \E in \in PausedInputs, ttl \in PausedTtlArgs : Save(in[1], in[2], ttl)
    \/ \E d \in PausedTickSteps : Tick(d)
    \/ \E in \in InvokeInputs, world \in Worlds : InvokeWorkflow(in[1], in[2], world)
    \/ \E tok \in TokenInputs, results \in ResumeInputs : ResumeWorkflow(tok, results)
    \/ \E i \in DOMAIN calls, outcome \in Outcomes : RunNode(i, outcome)
    \/ \E i \in DOMAIN calls : Return(i)

\* the server: workflow calls and resume calls over the store
Spec == Init /\ [][Next]_vars

(***************************************************************************)
(* The connection manager on its own: non-overlapping calls of its methods *)
(***************************************************************************)
otherVars == <<states, now, nextUuid, ret, issued, deleted, config, calls, connects>>

\* a call may launch a process for serverName only below the bound
MayLaunch(serverName) ==
    IsConnected(manager, serverName) \/ manager.spawned[serverName] < MaxSpawned

\* await mcpClientManager.connect(serverName)
Connect(serverName, world) ==
    /\ MayLaunch(serverName)
    /\ LET r == connect(manager, serverName, config, world)
       IN  /\ manager' = r.manager
           /\ clientRet' = [op |-> "connect", serverName |-> serverName,
                            toolName |-> Undefined, ok |-> r.ok,
                            launched |-> r.manager.spawned # manager.spawned,
                            outcome |-> IF r.ok THEN r.value ELSE r.error]
    /\ UNCHANGED otherVars

\* await mcpClientManager.listTools(serverName)
ListTools(serverName, world) ==
    /\ MayLaunch(serverName)
    /\ LET r == listTools(manager, serverName, config, world)
       IN  /\ manager' = r.manager
           /\ clientRet' = [op |-> "listTools", serverName |-> serverName,
                            toolName |-> Undefined, ok |-> r.ok,
                            launched |-> r.manager.spawned # manager.spawned,
                            outcome |-> IF r.ok THEN r.value ELSE r.error]
    /\ UNCHANGED otherVars

\* await mcpClientManager.callTool(serverName, toolName, args)
CallTool(serverName, toolName, args, world) ==
    /\ MayLaunch(serverName)
    /\ LET r == callTool(manager, serverName, toolName, args, config, world)
       IN  /\ manager' = r.manager
           /\ clientRet' = [op |-> "callTool", serverName |-> serverName,
                            toolName |-> toolName, args |-> args, ok |-> r.ok,
                            launched |-> r.manager.spawned # manager.spawned,
                            outcome |-> IF r.ok THEN r.value ELSE r.error]
    /\ UNCHANGED otherVars

\* await mcpClientManager.disconnect(serverName)
Disconnect(serverName, world) ==
    /\ LET r == disconnect(manager, serverName, world)
       IN  /\ manager' = r.manager
           /\ clientRet' = [op |-> "disconnect", serverName |-> serverName,
                            world |-> world, ok |-> r.ok]
    /\ UNCHANGED otherVars

\* await mcpClientManager.disconnectAll()
DisconnectAll(world) ==
    /\ LET r == disconnectAll(manager, world)
       IN  /\ manager' = r.manager
           /\ clientRet' = [op |-> "disconnectAll", world |-> world, ok |-> r.ok]
    /\ UNCHANGED otherVars

\* await validateWorkflowRequirements(workflow, mcpClientManager)
Validate(workflow, world) ==
    /\ \A s \in Servers : MayLaunch(s)
    /\ LET r == validateWorkflowRequirements(workflow, manager, config, world)
       IN  /\ manager' = r.manager
           /\ clientRet' = [op |-> "validate", workflow |-> workflow,
                            world |-> world, result |-> r.result]
    /\ UNCHANGED otherVars

\* a connect call starts and runs up to its first await
ConnectBegin(serverName) ==
    /\ Len(connects) < MaxConnects
    /\ LET r == beginConnect(manager, serverName, config)
       IN  /\ manager' = r.manager
           /\ connects' = Append(connects, r.call)
    /\ clientRet' = [op |-> "none"]
    /\ UNCHANGED <<states, now, nextUuid, ret, issued, deleted, config, calls>>

\* the handshake of connect call i is over and the call returns
ConnectEnd(i, world) ==
    /\ connects[i].pc = "connecting"
    /\ LET r == finishConnect(manager, connects[i], world)
       IN  /\ manager' = r.manager
           /\ connects' = [connects EXCEPT ![i] = r.call]
    /\ clientRet' = [op |-> "none"]
    /\ UNCHANGED <<states, now, nextUuid, ret, issued, deleted, config, calls>>

\* a disconnect call starts and is suspended at its await of close()
DisconnectBegin(serverName) ==
    /\ Len(connects) < MaxDisconnects
    /\ LET r == beginDisconnect(manager, serverName)
       IN  /\ manager' = r.manager
           /\ connects' = Append(connects, r.call)
    /\ clientRet' = [op |-> "none"]
    /\ UNCHANGED <<states, now, nextUuid, ret, issued, deleted, config, calls>>

\* close() of disconnect call i has settled and the call returns
DisconnectEnd(i, world) ==
    /\ connects[i].pc = "closing"
    /\ LET r == finishDisconnect(manager, connects[i], world)
       IN  /\ manager' = r.manager
           /\ connects' = [connects EXCEPT ![i] = r.call]
    /\ clientRet' = [op |-> "none"]
    /\ UNCHANGED <<states, now, nextUuid, ret, issued, deleted, config, calls>>

\* what the servers do during a call of one of the manager's methods
ClientWorlds ==
    {[connectable |-> up, listable |-> up, callable |-> up, tools |-> AllTools,
      closable |-> k, torn |-> t] :
        up \in {{}, Servers}, k \in SUBSET Servers, t \in {{}, Servers}}
    \cup {[connectable |-> Servers, listable |-> {}, callable |-> {},
           tools |-> AllTools, closable |-> Servers, torn |-> {}]}

ToolArgs == {[text |-> "quote"], [text |-> ""]}

\* the tools one requirement asks of a server, in declaration order
RequiredTools ==
    [s \in Servers |-> IF s = "elevenlabs"
                       THEN <<"create_wise_quote_audio", "download_audio">>
                       ELSE <<"generate_prompt">>]

\* the requirements.mcpServers lists: one or two servers, each optional or not
ServerRequirements ==
    {[name |-> n, tools |-> RequiredTools[n], optional |-> o] :
        n \in Servers, o \in BOOLEAN}

RequirementLists ==
    {<<a>> : a \in ServerRequirements}
    \cup {<<p[1], p[2]>> :
              p \in {q \in ServerRequirements \X ServerRequirements :
                         q[1].name # q[2].name}}

EnvironmentLists ==
    {<<>>, <<"OPENAI_API_KEY">>, <<"OPENAI_API_KEY", "ELEVENLABS_API_KEY">>}

\* workflow definitions with these requirements
WorkflowInputs ==
    {[id |-> "workflow", requirements |-> [mcpServers |-> l, environment |-> e]] :
        l \in RequirementLists, e \in EnvironmentLists}

\* the catalogs the servers answer listTools with
Catalogs ==
    {AllTools,
     [AllTools EXCEPT !["elevenlabs"] = {"create_wise_quote_audio"}],
     [s \in Servers |-> {}]}

\* what the servers and the environment are during one validation
\* process.env: a variable is absent, present and empty, or holds a value
EnvInputs ==
    {[k \in {} |-> ""],
     [k \in {"OPENAI_API_KEY"} |-> "sk-key"],
     [k \in {"OPENAI_API_KEY"} |-> ""],
     [k \in {"OPENAI_API_KEY", "ELEVENLABS_API_KEY"} |-> "sk-key"],
     [k \in {"OPENAI_API_KEY", "ELEVENLABS_API_KEY"} |->
         IF k = "OPENAI_API_KEY" THEN "sk-key" ELSE ""],
     [k \in {"ELEVENLABS_API_KEY"} |-> "sk-key"]}

ValidationWorlds ==
    {[connectable |-> c, listable |-> l, tools |-> t, env |-> e] :
        c \in SUBSET Servers, l \in SUBSET Servers, t \in Catalogs,
        e \in EnvInputs}

NextClient ==
    \/ \E s \in Servers, world \in ClientWorlds : Connect(s, world)
    \/ \E s \in Servers, world \in ClientWorlds : ListTools(s, world)
    \/ \E s \in Servers, args \in ToolArgs, world \in ClientWorlds :
           CallTool(s, RequiredTools[s][1], args, world)
    \/ \E s \in Servers, world \in ClientWorlds : Disconnect(s, world)
    \/ \E world \in ClientWorlds : DisconnectAll(world)

\* one manager used by non-overlapping calls
SpecClient == Init /\ [][NextClient]_vars

\* the servers answer, or do not, and close() resolves
SetupWorlds ==
    {[connectable |-> up, listable |-> up, callable |-> up, tools |-> AllTools,
      closable |-> Servers, torn |-> {}] : up \in {{}, Servers}}

\* connect calls that overlap, and disconnects between their steps
NextOverlap ==
    \/ \E s \in Servers : ConnectBegin(s)
    \/ \E i \in DOMAIN connects, world \in SetupWorlds : ConnectEnd(i, world)
    \/ \E s \in Servers, world \in SetupWorlds : Disconnect(s, world)
    \/ \E world \in SetupWorlds : DisconnectAll(world)

\* one manager used by connect calls that overlap
SpecOverlap == Init /\ [][NextOverlap]_vars

(***************************************************************************)
(* MCPClientManager.loadConfigFromEnv (utils/mcpClient.ts)                 *)
(***************************************************************************)
\* A server prefix is spelled out as its characters; the environment is
\* the list of prefixes in the order of Object.keys(process.env), each
\* with the values of its three variables (Undefined for a variable that
\* does not exist).

\* String.prototype.toLowerCase on one character
LowerCase(ch) ==
    CASE ch = "A" -> "a"
      [] ch = "B" -> "b"
      [] ch = "C" -> "c"
      [] ch = "E" -> "e"
      [] ch = "L" -> "l"
      [] OTHER -> ch

\* serverName.toLowerCase().replace(/_/g, '-')
normalizeName(serverName) ==
    [k \in DOMAIN serverName |->
        IF serverName[k] = "_" THEN "-" ELSE LowerCase(serverName[k])]

\* JSON.parse(argsStr): the value, or a SyntaxError
JSONParse(argsStr) ==
    CASE argsStr = "[]" -> [ok |-> TRUE, value |-> <<>>]
      [] argsStr = "[\"-y\"]" -> [ok |-> TRUE, value |-> <<"-y">>]
      [] OTHER -> [ok |-> FALSE, value |-> <<>>]

\* a value in a condition: undefined and "" are falsy
NonEmpty(v) == v # Undefined /\ v # ""

\* the prefixes found by key.match(/^(.+)_MCP_TRANSPORT$/)
serverNames(env) == SelectSeq(env, LAMBDA e : e.transport # Undefined)

\* a loop that gives up at the first args value that does not parse
RECURSIVE LoadEachStopsAtBadArgs(_, _)
LoadEachStopsAtBadArgs(cfg, names) ==
    IF names = <<>> THEN cfg
    ELSE LET e == Head(names)
             normalizedName == normalizeName(e.prefix)
         IN  IF e.transport = "stdio" /\ NonEmpty(e.command) /\ NonEmpty(e.args)
             THEN IF JSONParse(e.args).ok
                  THEN LoadEachStopsAtBadArgs(
                           (normalizedName :>
                                [name |-> normalizedName, transport |-> "stdio",
                                 command |-> e.command,
                                 args |-> JSONParse(e.args).value]) @@ cfg,
                           Tail(names))
                  ELSE cfg
             ELSE LoadEachStopsAtBadArgs(cfg, Tail(names))

\* the loop over serverNames: config.set for a stdio server with command
\* and args, the catch block for args that do not parse
RECURSIVE LoadEach(_, _)
LoadEach(cfg, names) ==
    IF names = <<>> THEN cfg
    ELSE LET e == Head(names)
             normalizedName == normalizeName(e.prefix)
         IN  IF e.transport = "stdio" /\ NonEmpty(e.command) /\ NonEmpty(e.args)
                /\ JSONParse(e.args).ok
             THEN LoadEach((normalizedName :>
                                [name |-> normalizedName, transport |-> "stdio",
                                 command |-> e.command,
                                 args |-> JSONParse(e.args).value]) @@ cfg,
                           Tail(names))
             ELSE LoadEach(cfg, Tail(names))

loadConfigFromEnv(env) == LoadEach(<<>>, serverNames(env))

\* new MCPClientManager() in a process whose environment is env; the
\* environment of a process stays what it was at the first construction
Construct(env) ==
    /\ clientRet.op = "loadConfig" => clientRet.env = env
    /\ manager' = NewManager
    /\ clientRet' = [op |-> "loadConfig", env |-> env,
                     config |-> loadConfigFromEnv(env)]
    /\ UNCHANGED <<states, now, nextUuid, ret, issued, deleted, config, calls,
                   connects>>

\* the prefixes and the values of the three variables of a prefix
EnvPrefixes == {<<"E", "L">>, <<"A", "_", "B", "_", "C">>, <<"a", "_", "B", "_", "c">>}

EnvEntries ==
    [prefix : EnvPrefixes,
     transport : {Undefined, "stdio", "sse"},
     command : {Undefined, "", "npx"},
     args : {Undefined, "[\"-y\"]", "[-y"}]

\* the environments: up to MaxEnvServers prefixes, no prefix twice
Environments ==
    UNION {{env \in [1..n -> EnvEntries] :
               \A j, k \in 1..n : env[j].prefix = env[k].prefix => j = k} :
           n \in 0..MaxEnvServers}

\* the environment a construction can see
EnvironmentNow ==
    IF clientRet.op = "loadConfig" THEN {clientRet.env} ELSE Environments

NextConfig == \E env \in EnvironmentNow : Construct(env)

\* managers constructed under every environment
SpecConfig == Init /\ [][NextConfig]_vars

\* graph.invoke(state) on a graph that createGraph() has just built
InvokeGraph(workflowId, state) ==
    /\ Len(calls) < MaxGraphs
    /\ calls' = Append(calls, StartGraph(NewCall("invoke", workflowId, NoToken, state),
                                         state))
    /\ ret' = [op |-> "none"]
    /\ UNCHANGED <<states, now, nextUuid, issued, deleted, config, clientVars>>

\* the states the three graphs are invoked with: top-level inputs and the
\* merged state of a resume
GraphInvocations ==
    {<<CreateJiraTicket, [summary |-> "summary", description |-> "description",
                          projectKey |-> "PROJ"]>>,
     <<CreateJiraTicket, [summary |-> "summary", description |-> "description",
                          projectKey |-> "PROJ", completedSteps |-> <<>>]>>,
     <<JiraAudioQuote, [summary |-> "summary", description |-> "description",
                        projectKey |-> "PROJ", quote |-> "quote"]>>,
     <<JiraAudioQuote,
       ResumedState(SnapshotQuote, [ticketKey |-> "TEST-123", ticketUrl |-> "url"])>>,
     <<AudioQuoteAppend, [ticketKey |-> "TEST-123", quote |-> "quote"]>>}

NextGraph ==
    \/ \E in \in GraphInvocations : InvokeGraph(in[1], in[2])
    \/ \E i \in DOMAIN calls, outcome \in Outcomes : RunNode(i, outcome)
    \/ \E i \in DOMAIN calls : Return(i)

\* a node's await of its remote call returns or fails, and the event loop
\* then runs what waits for it: the next node or the return of graph.invoke
FairGraph ==
    \A i \in 1..MaxGraphs :
        /\ WF_vars(i \in DOMAIN calls /\ \E outcome \in Outcomes : RunNode(i, outcome))
        /\ WF_vars(i \in DOMAIN calls /\ Return(i))

\* the three graphs on their own, every started invocation making progress
SpecGraph == Init /\ [][NextGraph]_vars /\ FairGraph

\* what the servers do while disconnects are suspended: close() resolves,
\* or rejects with the client open or torn down
ClosingWorlds ==
    {[connectable |-> Servers, listable |-> Servers, callable |-> Servers,
      tools |-> AllTools, closable |-> k, torn |-> t] :
        k \in {{}, Servers}, t \in {{}, Servers}}

\* connect, listTools and callTool while disconnect calls are suspended
NextClosing ==
    \/ \E s \in Servers, world \in ClosingWorlds : Connect(s, world)
    \/ \E s \in Servers, world \in ClosingWorlds : ListTools(s, world)
    \/ \E s \in Servers, args \in ToolArgs, world \in ClosingWorlds :
           CallTool(s, RequiredTools[s][1], args, world)
    \/ \E s \in Servers : DisconnectBegin(s)
    \/ \E i \in DOMAIN connects, world \in ClosingWorlds : DisconnectEnd(i, world)

\* one manager whose disconnect calls overlap with its other calls
SpecClosing == Init /\ [][NextClosing]_vars

\* earlier calls leave the manager in some state, then one validation runs
NextValidate ==
    \/ clientRet.op # "validate" /\
           \E s \in Servers, world \in SetupWorlds : ListTools(s, world)
    \/ clientRet.op # "validate" /\
           \E s \in Servers, world \in SetupWorlds : Disconnect(s, world)
    \/ clientRet.op # "validate" /\
           \E workflow \in WorkflowInputs, world \in ValidationWorlds :
               Validate(workflow, world)

\* requirement validation on a manager, fresh or used before
SpecValidate == Init /\ [][NextValidate]_vars

(***************************************************************************)
(* History: what was saved under a token                                   *)
(***************************************************************************)
IssuedTokens == {issued[i].token : i \in DOMAIN issued}

SaveOf(tok) == issued[CHOOSE i \in DOMAIN issued : issued[i].token = tok]

\* the ttl the caller gave to save (the default when it gave none)
GivenTtl(ttl) == IF ttl.given THEN ttl.ms ELSE DEFAULT_TTL


\* a token is dead once delete was called with it or its expiresAt has passed
Dead(tok) ==
    \/ tok \in deleted
    \/ tok \in IssuedTokens /\ now > SaveOf(tok).expiresAt

NoTokenIssuedTwice ==
    \A i, j \in DOMAIN issued : issued[i].token = issued[j].token => i = j

(***************************************************************************)
(* C6: across any sequence of save, load, delete, has, getWorkflowId and   *)
(* count calls and clock advances, a load of a token that was deleted or   *)
(* has expired returns none (also before the ttl elapses, for a deleted    *)
(* one), and save never issues a token issued before.                      *)
(***************************************************************************)
C6_DeadTokenNeverResolves ==
    /\ (ret.op = "load" /\ Dead(ret.token)) => ret.value = None
    /\ \A tok \in IssuedTokens : Dead(tok) => LoadValue(states, tok, now) = None
    /\ NoTokenIssuedTwice

\* a token deleted before its ttl elapsed was loaded, with a second token issued
C6_Witness ==
    /\ ret.op = "load"
    /\ ret.token \in deleted /\ ret.token \in IssuedTokens
    /\ now <= SaveOf(ret.token).expiresAt
    /\ ret.value = None
    /\ Len(issued) = 2

(***************************************************************************)
(* C7: after token = save(w, s, ttl), a load(token) made while the record  *)
(* is neither deleted nor expired returns s and leaves the record in the   *)
(* store, and getWorkflowId(token) returns w.                              *)
(***************************************************************************)
LiveToken(tok) == tok \in IssuedTokens /\ ~Dead(tok)

TtlElapsed(tok) ==
    tok \in IssuedTokens /\ now > SaveOf(tok).timestamp + GivenTtl(SaveOf(tok).ttl)

C8_LoadAfterGivenTtlIsNone ==
    (ret.op = "load" /\ TtlElapsed(ret.token)) =>
        (ret.value = None /\ ret.token \notin DOMAIN states)

(***************************************************************************)
(* C1: when validation of a workflow's requirements yields valid = false,  *)
(* the invocation aborts with a RequirementError carrying every error of   *)
(* the report; the graph is not built and no node runs in that call.       *)
(***************************************************************************)
C1_InvalidRequirementsAbort ==
    \A i \in DOMAIN calls :
        (calls[i].validation # None /\ ~calls[i].validation.valid) =>
            /\ calls[i].pc = "done"
            /\ calls[i].thrown # None
            /\ calls[i].thrown.name = "RequirementError"
            /\ calls[i].thrown.missingRequirements = calls[i].validation.errors
            /\ calls[i].rejection.message = calls[i].validation.errors
            /\ ~calls[i].graphBuilt
            /\ calls[i].nodesRun = <<>>
            /\ calls[i].result = None

\* a call was aborted on a report with several errors
C1_Witness ==
    \E i \in DOMAIN calls :
        /\ calls[i].validation # None
        /\ ~calls[i].validation.valid
        /\ Len(calls[i].validation.errors) >= 2
        /\ calls[i].thrown # None
        /\ calls[i].thrown.name = "RequirementError"

(***************************************************************************)
(* C2: in every call that executes graph nodes, a fresh invocation and a   *)
(* resume alike, requirement validation of the workflow ran and passed     *)
(* earlier in the same call.                                               *)
(***************************************************************************)
C2_NodesOnlyAfterValidation ==
    \A i \in DOMAIN calls :
        calls[i].nodesRun # <<>> =>
            (calls[i].validation # None /\ calls[i].validation.valid)

(***************************************************************************)
(* C3: a resume call whose token is unknown, deleted or expired fails with *)
(* an explicit error: no graph is built, no node runs, and no live record  *)
(* of the store is added, changed or removed.                              *)
(***************************************************************************)
C3_DeadTokenResumeFails ==
    [][\A tok \in TokenInputs, results \in ResumeInputs :
          (ResumeWorkflow(tok, results) /\ (tok \notin IssuedTokens \/ Dead(tok))) =>
              LET c == calls'[Len(calls')]
              IN  /\ c.pc = "done"
                  /\ c.thrown # None
                  /\ c.rejection.code = "InvalidRequest"
                  /\ ~c.graphBuilt
                  /\ c.nodesRun = <<>>
                  /\ c.result = None
                  /\ DOMAIN states' \subseteq DOMAIN states
                  /\ \A t \in DOMAIN states :
                        ~IsExpired(states[t], now) =>
                            (t \in DOMAIN states' /\ states'[t] = states[t])]_vars

\* a resume was refused for a token that an earlier resume had consumed
C3_Witness ==
    \E i \in DOMAIN calls :
        /\ calls[i].kind = "resume"
        /\ calls[i].token \in deleted
        /\ calls[i].thrown # None
        /\ ~calls[i].graphBuilt

(***************************************************************************)
(* C4: over any interleaving of resume calls, overlapping ones included,   *)
(* at most one graph execution is started from a given token's snapshot.   *)
(***************************************************************************)
C4_AtMostOneExecutionPerToken ==
    \A i, j \in DOMAIN calls :
        (/\ calls[i].kind = "resume" /\ calls[j].kind = "resume"
         /\ calls[i].token = calls[j].token
         /\ calls[i].graphBuilt /\ calls[j].graphBuilt) => i = j

(***************************************************************************)
(* C5: on resume the token is deleted before the graph is re-invoked: once *)
(* the first node of the resumed execution has started, load(token)        *)
(* returns none.                                                           *)
(***************************************************************************)
C5_TokenDeletedBeforeGraphRuns ==
    \A i \in DOMAIN calls :
        (calls[i].kind = "resume" /\ calls[i].nodesRun # <<>>) =>
            LoadValue(states, calls[i].token, now) = None

NodeOutputs ==
    {"currentStep", "completedSteps", "enhancedQuote", "voiceDirections", "audioId",
     "audioPath", "atlassianPrompt", "error", "errors", "resuming"}

C11_ResumeMergeFollowsReducer ==
    \A i \in DOMAIN calls :
        (calls[i].kind = "resume" /\ calls[i].graphBuilt) =>
            /\ "resuming" \in DOMAIN calls[i].resumed
            /\ calls[i].resumed.resuming = TRUE
            /\ \A k \in DOMAIN NonNull(calls[i].input) \ {"resuming"} :
                  /\ k \in DOMAIN calls[i].resumed
                  /\ calls[i].resumed[k] = calls[i].input[k]
            /\ \A k \in (DOMAIN calls[i].snapshot
                           \ DOMAIN NonNull(calls[i].input)) \ {"resuming"} :
                  /\ k \in DOMAIN calls[i].resumed
                  /\ calls[i].resumed[k] = calls[i].snapshot[k]

\* the list in field k of s, empty when the field is undefined
ListOf(s, k) == IF k \in DOMAIN s THEN s[k] ELSE <<>>

\* field k is the same in s and t (undefined in both, or equal)
SameField(s, t, k) ==
    /\ (k \in DOMAIN s) = (k \in DOMAIN t)
    /\ k \in DOMAIN s => s[k] = t[k]

\* the step of call i from before to after was the run of a node
NodeRan(before, after, i) ==
    /\ i \in DOMAIN before /\ i \in DOMAIN after
    /\ Len(after[i].nodesRun) = Len(before[i].nodesRun) + 1

\* the node of that step failed: currentStep = "error", error set, errors
\* extended by one record naming the node, completedSteps as it was
NodeFailed(c, d) ==
    /\ d.state.currentStep = "error"
    /\ "error" \in DOMAIN d.state
    /\ "errors" \in DOMAIN d.state
    /\ Len(d.state.errors) = Len(ListOf(c.state, "errors")) + 1
    /\ SubSeq(d.state.errors, 1, Len(d.state.errors) - 1) = ListOf(c.state, "errors")
    /\ d.state.errors[Len(d.state.errors)].step = c.next
    /\ d.state.errors[Len(d.state.errors)].error = d.state.error.message
    /\ SameField(c.state, d.state, "completedSteps")

\* the node of that step succeeded: its name appended to completedSteps,
\* errors as they were
NodeSucceeded(c, d) ==
    /\ d.state.currentStep # "error"
    /\ "completedSteps" \in DOMAIN d.state
    /\ d.state.completedSteps = Append(ListOf(c.state, "completedSteps"), c.next)
    /\ SameField(c.state, d.state, "errors")

(***************************************************************************)
(* C12: every node, whatever its precondition checks and its remote call   *)
(* do, returns a partial update and does not throw; on failure the update  *)
(* sets currentStep = "error" and error, extends errors by exactly one     *)
(* record whose step is the node's name, and leaves completedSteps alone.  *)
(***************************************************************************)
C12_NodesReturnErrorsAsData ==
    [][\A i \in DOMAIN calls :
          NodeRan(calls, calls', i) =>
              /\ calls'[i].pc = "graph"
              /\ calls'[i].thrown = None
              /\ calls'[i].nodesRun = Append(calls[i].nodesRun, calls[i].next)
              /\ \/ NodeFailed(calls[i], calls'[i])
                 \/ NodeSucceeded(calls[i], calls'[i])]_vars

\* a call ended with one completed step and the failures of three later
\* nodes recorded in order
C12_Witness ==
    \E i \in DOMAIN calls :
        /\ calls[i].pc = "done"
        /\ calls[i].result # None
        /\ ListOf(calls[i].state, "completedSteps") = <<"processQuote">>
        /\ Len(ListOf(calls[i].state, "errors")) = 3
        /\ calls[i].state.errors[1].step = "generateAudio"
        /\ calls[i].state.errors[3].step = "generateFileAttachmentPrompt"

\* p is a prefix of q
IsPrefix(p, q) == Len(p) <= Len(q) /\ SubSeq(q, 1, Len(p)) = p

\* the completedSteps the graph of a call started from
StepsAtStart(c) ==
    ListOf(IF c.kind = "resume" THEN c.resumed ELSE c.input, "completedSteps")

(***************************************************************************)
(* C13: along any execution completedSteps only grows by appending: after  *)
(* each node's update is merged the previous list is a prefix of the new   *)
(* one, so the list is at every point what the graph started from followed *)
(* by the names of the nodes that completed, in execution order.           *)
(***************************************************************************)
C13_CompletedStepsAppendOnly ==
    /\ [](\A i \in DOMAIN calls :
             calls[i].graphBuilt =>
                 ListOf(calls[i].state, "completedSteps")
                     = StepsAtStart(calls[i]) \o calls[i].completed)
    /\ [][\A i \in DOMAIN calls :
             NodeRan(calls, calls', i) =>
                 IsPrefix(ListOf(calls[i].state, "completedSteps"),
                          ListOf(calls'[i].state, "completedSteps"))]_vars

\* a graph that started from ["generatePrompt"] ended with the three later
\* steps appended in order
C13_Witness ==
    \E i \in DOMAIN calls :
        /\ calls[i].pc = "done"
        /\ calls[i].result # None
        /\ ListOf(calls[i].state, "completedSteps")
              = <<"generatePrompt", "processQuote", "generateAudio", "downloadAudio">>

(***************************************************************************)
(* Validation reports                                                      *)
(***************************************************************************)
SeqRange(q) == {q[i] : i \in DOMAIN q}

\* the entries of a list of messages that are about a subject
About(msgs, subject) == {j \in DOMAIN msgs : msgs[j].subject = subject}

\* the entries of a list of messages about a tool of a server
AboutTool(msgs, server, tool) ==
    {j \in DOMAIN msgs : msgs[j].subject = tool /\ msgs[j].detail = server}

\* the call that has just returned is a validation
Validated == clientRet.op = "validate"

\* listTools(name) cannot succeed on mgr in this world: the remote call
\* fails, or there is no connection and none can be made
ListToolsFails(mgr, name, world) ==
    \/ name \notin world.listable
    \/ ~IsConnected(mgr, name) /\ name \notin world.connectable

\* C14: a step that validates a requirement set with a non-optional server
\* that is not configured, or whose listTools call fails, ends with valid =
\* FALSE, exactly one error about that server and its name in
\* missingServers; for a server that is not configured, connect is not
\* called, no process is launched, and missingTools has no entry for it
C14_MissingServerInvalidates ==
    [][clientRet'.op = "validate" =>
        LET v == clientRet'
            reqs == v.workflow.requirements.mcpServers
            r == v.result
        IN  \A i \in DOMAIN reqs :
                LET name == reqs[i].name
                IN  /\ (~reqs[i].optional /\
                            (name \notin config \/
                                 ListToolsFails(manager, name, v.world)))
                        => /\ ~r.valid
                           /\ Cardinality(About(r.errors, name)) = 1
                           /\ name \in SeqRange(r.missingServers)
                    /\ name \notin config
                        => /\ name \in manager'.contacted
                               => name \in manager.contacted
                           /\ manager'.spawned[name] = manager.spawned[name]
                           /\ \A j \in DOMAIN r.missingTools :
                                  r.missingTools[j].server # name]_vars

\* a validation of two non-optional servers, the first not configured and
\* the second failing listTools, has reported both as missing
C14_Witness ==
    /\ Validated
    /\ config = {"elevenlabs"}
    /\ LET reqs == clientRet.workflow.requirements.mcpServers
       IN  /\ Len(reqs) = 2
           /\ reqs[1].name = "atlassian-prompts" /\ ~reqs[1].optional
           /\ reqs[2].name = "elevenlabs" /\ ~reqs[2].optional
    /\ "elevenlabs" \in clientRet.world.connectable
    /\ "elevenlabs" \notin clientRet.world.listable
    /\ clientRet.result.missingServers = <<"atlassian-prompts", "elevenlabs">>
    /\ manager.spawned["elevenlabs"] > 0
    /\ manager.spawned["atlassian-prompts"] = 0

\* the server of a requirement is missing for a validation v that starts
\* on manager mgr: it is not configured or its listTools call fails
MissingServer(mgr, cfg, v, req) ==
    req.name \notin cfg \/ ListToolsFails(mgr, req.name, v.world)

\* the tools of a requirement that the catalog of its reachable server lacks
MissingToolsOf(mgr, cfg, v, req) ==
    IF MissingServer(mgr, cfg, v, req) THEN {}
    ELSE {t \in SeqRange(req.tools) : t \notin v.world.tools[req.name]}

\* the missing dependencies of a requirement: its server, or tools of it
MissingDependencies(mgr, cfg, v, req) ==
    (IF MissingServer(mgr, cfg, v, req) THEN {<<req.name, "">>} ELSE {})
    \cup {<<req.name, t>> : t \in MissingToolsOf(mgr, cfg, v, req)}

\* C15: a step that validates a requirement set of which only optional
\* dependencies are missing, with every required environment variable set
\* to a value that is not empty,
\* ends with valid = TRUE and no errors, and its warnings are exactly one
\* per missing optional server and one per missing tool of a reachable
\* optional server
C15_OptionalMissingOnlyWarns ==
    [][clientRet'.op = "validate" =>
        LET v == clientRet'
            reqs == v.workflow.requirements.mcpServers
            r == v.result
            missing == UNION {MissingDependencies(manager, config, v, reqs[i]) :
                                 i \in DOMAIN reqs}
        IN  ((\A i \in DOMAIN reqs :
                 ~reqs[i].optional =>
                     MissingDependencies(manager, config, v, reqs[i]) = {})
             /\ \A k \in SeqRange(v.workflow.requirements.environment) :
                    EnvSet(v.world.env, k))
            => /\ r.valid
               /\ r.errors = <<>>
               /\ Len(r.warnings) = Cardinality(missing)
               /\ \A dep \in missing :
                      Cardinality({j \in DOMAIN r.warnings :
                          IF dep[2] = ""
                          THEN r.warnings[j].subject = dep[1]
                          ELSE /\ r.warnings[j].subject = dep[2]
                               /\ r.warnings[j].detail = dep[1]}) = 1]_vars

\* a validation of two optional servers, one not configured and the other
\* lacking a tool, and of a set environment variable, was valid with two
\* warnings
C15_Witness ==
    /\ Validated
    /\ config = {"elevenlabs"}
    /\ LET reqs == clientRet.workflow.requirements.mcpServers
       IN  /\ Len(reqs) = 2
           /\ reqs[1].name = "atlassian-prompts" /\ reqs[1].optional
           /\ reqs[2].name = "elevenlabs" /\ reqs[2].optional
    /\ clientRet.workflow.requirements.environment = <<"OPENAI_API_KEY">>
    /\ EnvSet(clientRet.world.env, "OPENAI_API_KEY")
    /\ clientRet.result.valid
    /\ clientRet.result.errors = <<>>
    /\ Len(clientRet.result.warnings) = 2
    /\ clientRet.result.warnings[2].subject = "download_audio"

\* a validation v that starts on manager mgr finds nothing missing that is
\* not optional, and every required environment variable set
NothingRequiredMissing(mgr, cfg, v) ==
    /\ \A i \in DOMAIN v.workflow.requirements.mcpServers :
           LET req == v.workflow.requirements.mcpServers[i]
           IN  ~req.optional => MissingDependencies(mgr, cfg, v, req) = {}
    /\ \A k \in SeqRange(v.workflow.requirements.environment) :
           EnvSet(v.world.env, k)

\* C16: a step that validates a requirement whose server is reachable
\* records, for each required tool that the catalog returned by listTools
\* lacks: if the requirement is not optional, valid = FALSE, exactly one
\* error and the entry {server, tool} in missingTools; if it is optional,
\* exactly one warning, no error and no missingTools entry, and valid is
\* what the other dependencies make it; a tool in the catalog is not
\* reported at all
C16_MissingToolReported ==
    [][clientRet'.op = "validate" =>
        LET v == clientRet'
            reqs == v.workflow.requirements.mcpServers
            r == v.result
        IN  /\ r.valid = NothingRequiredMissing(manager, config, v)
            /\ \A i \in DOMAIN reqs :
                   ~MissingServer(manager, config, v, reqs[i]) =>
                       \A t \in SeqRange(reqs[i].tools) :
                           LET name == reqs[i].name
                               errs == AboutTool(r.errors, name, t)
                               warns == AboutTool(r.warnings, name, t)
                               entry == [server |-> name, tool |-> t]
                           IN  IF t \in v.world.tools[name]
                               THEN /\ errs = {} /\ warns = {}
                                    /\ entry \notin SeqRange(r.missingTools)
                               ELSE IF reqs[i].optional
                               THEN /\ Cardinality(warns) = 1 /\ errs = {}
                                    /\ entry \notin SeqRange(r.missingTools)
                               ELSE /\ ~r.valid
                                    /\ Cardinality(errs) = 1 /\ warns = {}
                                    /\ entry \in SeqRange(r.missingTools)]_vars

\* a validation found both servers reachable with empty catalogs, the
\* first optional and the second required: the report is invalid, names
\* both tools of the second and warns about the tool of the first
C16_Witness ==
    /\ Validated
    /\ LET reqs == clientRet.workflow.requirements.mcpServers
       IN  /\ Len(reqs) = 2
           /\ reqs[1].name = "atlassian-prompts" /\ reqs[1].optional
           /\ reqs[2].name = "elevenlabs" /\ ~reqs[2].optional
    /\ clientRet.world.tools["atlassian-prompts"] = {}
    /\ clientRet.world.tools["elevenlabs"] = {}
    /\ clientRet.result.availableServers = <<"atlassian-prompts", "elevenlabs">>
    /\ ~clientRet.result.valid
    /\ clientRet.result.missingTools =
           <<[server |-> "elevenlabs", tool |-> "create_wise_quote_audio"],
             [server |-> "elevenlabs", tool |-> "download_audio"]>>
    /\ Len(clientRet.result.warnings) = 1
    /\ clientRet.result.warnings[1].subject = "generate_prompt"
    /\ Len(clientRet.result.errors) = 2

\* what a message is about: a server or variable, or a tool of a server
ErrKey(m) == <<m.subject, m.detail>>

\* the required tools, in order, that a catalog lacks
RECURSIVE ToolsNotIn(_, _)
ToolsNotIn(tools, available) ==
    IF tools = <<>> THEN <<>>
    ELSE (IF Head(tools) \in available THEN <<>> ELSE <<Head(tools)>>)
         \o ToolsNotIn(Tail(tools), available)

\* the problems of the non-optional requirements of a validation v that
\* starts on manager mgr, in declaration order
RECURSIVE ExpectedErrors(_, _, _, _)
ExpectedErrors(mgr, cfg, v, reqs) ==
    IF reqs = <<>> THEN <<>>
    ELSE LET req == Head(reqs)
             lacking == ToolsNotIn(req.tools, v.world.tools[req.name])
         IN  (IF req.optional THEN <<>>
              ELSE IF MissingServer(mgr, cfg, v, req) THEN <<<<req.name, "">>>>
              ELSE [j \in DOMAIN lacking |-> <<lacking[j], req.name>>])
             \o ExpectedErrors(mgr, cfg, v, Tail(reqs))

\* the required environment variables that are not set, in order
RECURSIVE ExpectedEnvErrors(_, _)
ExpectedEnvErrors(environment, env) ==
    IF environment = <<>> THEN <<>>
    ELSE (IF EnvSet(env, Head(environment)) THEN <<>>
          ELSE <<<<Head(environment), "">>>>)
         \o ExpectedEnvErrors(Tail(environment), env)

\* C17: a step that validates a requirement set examines every requirement
\* whatever came before it: connect is called for every configured server,
\* and errors holds, in declaration order, one entry for each missing
\* non-optional server and one for each missing tool of a reachable
\* non-optional server, followed by the entries for the environment
C17_EveryProblemEnumerated ==
    [][clientRet'.op = "validate" =>
        LET v == clientRet'
            reqs == v.workflow.requirements.mcpServers
            r == v.result
        IN  /\ \A i \in DOMAIN reqs :
                   reqs[i].name \in config => reqs[i].name \in manager'.contacted
            /\ [j \in DOMAIN r.errors |-> ErrKey(r.errors[j])]
                   = ExpectedErrors(manager, config, v, reqs)
                     \o ExpectedEnvErrors(v.workflow.requirements.environment,
                                          v.world.env)]_vars

\* a validation has reported a missing required server and then both
\* missing tools of the next required server
C17_Witness ==
    /\ Validated
    /\ Len(clientRet.result.errors) >= 3
    /\ ErrKey(clientRet.result.errors[1]) = <<"atlassian-prompts", "">>
    /\ ErrKey(clientRet.result.errors[2]) = <<"create_wise_quote_audio", "elevenlabs">>
    /\ ErrKey(clientRet.result.errors[3]) = <<"download_audio", "elevenlabs">>
    /\ clientRet.result.missingServers = <<"atlassian-prompts">>
    /\ Len(clientRet.result.missingTools) = 2

\* C18 as stated: after a validation, each required environment variable
\* that is not present in the environment has exactly one error and valid
\* is FALSE, and a required variable that is present has no error
C18_PresentVariableNeverAnError ==
    Validated =>
        \A k \in SeqRange(clientRet.workflow.requirements.environment) :
            IF k \in DOMAIN clientRet.world.env
            THEN About(clientRet.result.errors, k) = {}
            ELSE /\ Cardinality(About(clientRet.result.errors, k)) = 1
                 /\ ~clientRet.result.valid

\* C18 amended: after a validation, each required environment variable
\* that is absent from the environment or present with an empty value has
\* exactly one error and valid is FALSE, whatever the servers did, and a
\* required variable that holds a value that is not empty has no error
C18_UnsetOrEmptyVariableIsAnError ==
    Validated =>
        \A k \in SeqRange(clientRet.workflow.requirements.environment) :
            IF k \in DOMAIN clientRet.world.env /\ clientRet.world.env[k] # ""
            THEN About(clientRet.result.errors, k) = {}
            ELSE /\ Cardinality(About(clientRet.result.errors, k)) = 1
                 /\ ~clientRet.result.valid

\* a validation whose servers were all available has failed only for a
\* required variable that is present and empty, next to one that is set
C18_Witness ==
    /\ Validated
    /\ clientRet.workflow.requirements.environment =
           <<"OPENAI_API_KEY", "ELEVENLABS_API_KEY">>
    /\ DOMAIN clientRet.world.env = {"OPENAI_API_KEY", "ELEVENLABS_API_KEY"}
    /\ clientRet.world.env["OPENAI_API_KEY"] # ""
    /\ clientRet.world.env["ELEVENLABS_API_KEY"] = ""
    /\ Len(clientRet.result.availableServers) = 2
    /\ clientRet.result.missingTools = <<>>
    /\ ~clientRet.result.valid
    /\ Len(clientRet.result.errors) = 1
    /\ clientRet.result.errors[1].subject = "ELEVENLABS_API_KEY"

(***************************************************************************)
(* The connection manager                                                  *)
(***************************************************************************)
\* the clients of a server that were opened and not closed
LiveClients(serverName) ==
    {h \in manager.opened \ manager.closed : h[1] = serverName}

\* C19: under non-overlapping connect, listTools, callTool, disconnect and
\* disconnectAll calls on one manager, at no time are two clients of one
\* server open and not closed, and a connect for a name that is connected
\* returns the client of the existing connection, launches no process and
\* leaves the connections as they are
C19_OneLiveConnectionPerServer ==
    /\ [](\A s \in Servers : Cardinality(LiveClients(s)) <= 1)
    /\ [][(clientRet'.op = "connect" /\ IsConnected(manager, clientRet'.serverName))
            => /\ clientRet'.ok
               /\ clientRet'.outcome =
                      manager.connections[clientRet'.serverName].client
               /\ manager'.spawned = manager.spawned
               /\ manager'.opened = manager.opened
               /\ manager'.connections = manager.connections]_vars

\* a second process was launched for elevenlabs after its first client was
\* closed, and a later connect returned the second client without a launch
C19_Witness ==
    /\ clientRet.op = "connect"
    /\ clientRet.serverName = "elevenlabs"
    /\ clientRet.ok
    /\ ~clientRet.launched
    /\ clientRet.outcome = <<"elevenlabs", 2>>
    /\ <<"elevenlabs", 1>> \in manager.closed
    /\ LiveClients("elevenlabs") = {<<"elevenlabs", 2>>}

\* C20: a callTool that succeeds returns what the server answered; a
\* callTool that fails, a failure to connect included, raises an error
\* that carries the server name, the tool name and the cause; and a
\* callTool or listTools that fails leaves the connections, cached
\* catalogs included, as they were
C20_CallToolFailureCarriesContext ==
    [][clientRet'.op \in {"callTool", "listTools"} =>
        /\ (clientRet'.op = "callTool" /\ clientRet'.ok)
               => clientRet'.outcome = Response(clientRet'.serverName,
                                                clientRet'.toolName,
                                                clientRet'.args)
        /\ (clientRet'.op = "callTool" /\ ~clientRet'.ok)
               => /\ clientRet'.outcome.serverName = clientRet'.serverName
                  /\ clientRet'.outcome.toolName = clientRet'.toolName
                  /\ clientRet'.outcome.cause # Undefined
        /\ ~clientRet'.ok => manager'.connections = manager.connections]_vars

\* C21: disconnect and disconnectAll always resolve, also when close()
\* rejects; a disconnect of a connected server whose close() resolved
\* leaves the entry marked not connected and its client closed; and a
\* connect that succeeds for a name that is not connected returns a client
\* that was never opened before, after launching a process
C21_DisconnectNeverRaises ==
    [][/\ clientRet'.op \in {"disconnect", "disconnectAll"} => clientRet'.ok
       /\ (clientRet'.op = "disconnect"
              /\ IsConnected(manager, clientRet'.serverName)
              /\ clientRet'.serverName \in clientRet'.world.closable)
           => /\ ~IsConnected(manager', clientRet'.serverName)
              /\ manager.connections[clientRet'.serverName].client
                     \in manager'.closed
       /\ (clientRet'.op = "connect" /\ clientRet'.ok
              /\ ~IsConnected(manager, clientRet'.serverName))
           => /\ clientRet'.launched
              /\ clientRet'.outcome \notin manager.opened
              /\ clientRet'.outcome \notin manager'.closed
              /\ manager'.connections[clientRet'.serverName].client
                     = clientRet'.outcome]_vars

\* a disconnectAll has resolved although close() rejected for elevenlabs,
\* which is still marked connected, while atlassian-prompts was closed
C21_Witness ==
    /\ clientRet.op = "disconnectAll"
    /\ clientRet.ok
    /\ "elevenlabs" \notin clientRet.world.closable
    /\ "atlassian-prompts" \in clientRet.world.closable
    /\ IsConnected(manager, "elevenlabs")
    /\ LiveClients("elevenlabs") # {}
    /\ "atlassian-prompts" \in DOMAIN manager.connections
    /\ ~IsConnected(manager, "atlassian-prompts")
    /\ manager.connections["atlassian-prompts"].client \in manager.closed

(***************************************************************************)
(* The store: expiry                                                       *)
(***************************************************************************)
\* C22: the record that save has stored expires at the time of the save
\* plus the ttl the caller supplied, whatever its value (0 included), and
\* at the time of the save plus 30 minutes only when no ttl was supplied
C22_ExpiresAtIsNowPlusTtl ==
    /\ ret.op = "save" => ret.token \in DOMAIN states
    /\ \A tok \in DOMAIN states :
           /\ states[tok].timestamp = SaveOf(tok).timestamp
           /\ states[tok].expiresAt =
                  states[tok].timestamp + GivenTtl(SaveOf(tok).ttl)

\* C29: a save ends with no record in the store whose expiresAt lies
\* before now: every record that had expired, of any workflow, is gone,
\* and every record that had not is still there as it was
C29_SaveSweepsExpired ==
    [][(ret'.op = "save" /\ nextUuid' # nextUuid) =>
        /\ \A tok \in DOMAIN states' : ~(states'[tok].expiresAt < now)
        /\ \A tok \in DOMAIN states :
               IF now > states[tok].expiresAt
               THEN tok \notin DOMAIN states'
               ELSE tok \in DOMAIN states' /\ states'[tok] = states[tok]]_vars

\* a save has removed the expired record of the other workflow and has
\* stored its own
C29_Witness ==
    /\ ret.op = "save"
    /\ ret.swept # {}
    /\ \A tok \in ret.swept : tok[1] # ret.token[1] /\ tok \notin deleted
    /\ DOMAIN states = {ret.token}

\* the records of a store whose expiresAt has passed at time n
ExpiredTokens(m, n) == {tok \in DOMAIN m : n > m[tok].expiresAt}

\* C30: a store operation that touches a record whose expiresAt has passed
\* removes it and does not report it as live: load returns none, has
\* returns false and getWorkflowId returns none for its token, and save,
\* count and getActiveTokens leave no expired record and do not count or
\* list one
C30_ExpiredRecordRemovedOnTouch ==
    [][/\ (ret'.op \in {"load", "has", "getWorkflowId"}
              /\ ret'.token \in ExpiredTokens(states, now))
           => /\ ret'.token \notin DOMAIN states'
              /\ ret'.value = (IF ret'.op = "has" THEN FALSE ELSE None)
       /\ ret'.op \in {"save", "count", "getActiveTokens"}
           => /\ ExpiredTokens(states, now) \cap DOMAIN states' = {}
              /\ ret'.op = "count"
                    => ret'.value = Cardinality(DOMAIN states
                                                   \ ExpiredTokens(states, now))
              /\ ret'.op = "getActiveTokens"
                    => ret'.value = DOMAIN states \ ExpiredTokens(states, now)]_vars

(***************************************************************************)
(* The order in which the nodes of a graph run                             *)
(***************************************************************************)
\* the nodes of create_audio_quote_and_append_to_ticket, in graph order
AppendOrder ==
    <<"processQuote", "generateAudio", "downloadAudio", "generateFileAttachmentPrompt">>

\* C23: in every execution of create_audio_quote_and_append_to_ticket the
\* nodes that have run so far are the first nodes of processQuote,
\* generateAudio, downloadAudio, generateFileAttachmentPrompt, each once and
\* in that order; the node that runs next is the one after them, whether
\* or not an earlier node recorded an error; and the execution has ended
\* only when all four have run
C23_AppendRunsAllNodesInOrder ==
    \A i \in DOMAIN calls :
        (calls[i].workflowId = AudioQuoteAppend /\ calls[i].graphBuilt) =>
            /\ IsPrefix(calls[i].nodesRun, AppendOrder)
            /\ calls[i].next = IF calls[i].nodesRun = AppendOrder THEN "END"
                               ELSE AppendOrder[Len(calls[i].nodesRun) + 1]
            /\ calls[i].pc = "done" => calls[i].nodesRun = AppendOrder

\* an execution in which generateAudio recorded an error has gone on to run
\* downloadAudio and generateFileAttachmentPrompt and has returned
C23_Witness ==
    \E i \in DOMAIN calls :
        /\ calls[i].workflowId = AudioQuoteAppend
        /\ calls[i].kind = "invoke"
        /\ calls[i].pc = "done"
        /\ calls[i].result # None
        /\ calls[i].nodesRun = AppendOrder
        /\ "processQuote" \in SeqRange(calls[i].completed)
        /\ "generateAudio" \notin SeqRange(calls[i].completed)
        /\ Len(ListOf(calls[i].state, "errors")) >= 1

(***************************************************************************)
(* Connect calls that overlap                                              *)
(***************************************************************************)
\* the clients the manager can reach through its map
ReachableClients(mgr) ==
    {mgr.connections[s].client : s \in DOMAIN mgr.connections}

\* the clients that are open and that the manager cannot reach any more
Leaked(mgr) == (mgr.opened \ mgr.closed) \ ReachableClients(mgr)

OpenedFor(mgr, serverName) == {h \in mgr.opened : h[1] = serverName}

\* the invocations whose graph opened a client of its own for a server
GraphsThatOpened(serverName) ==
    {i \in DOMAIN calls : OpenedFor(calls[i].mcpManager, serverName) # {}}

\* C25: the nodes of a graph obtain their connections from the manager that
\* validated the requirements: no graph opens a client through a manager of
\* its own, and over all invocations each server name is opened at most
\* once, by the manager that disconnectAll closes at shutdown
C25_NodesUseTheValidatingManager ==
    /\ \A i \in DOMAIN calls : calls[i].mcpManager.opened = {}
    /\ \A serverName \in Servers :
           Cardinality(OpenedFor(manager, serverName))
               + Cardinality(GraphsThatOpened(serverName)) <= 1

(***************************************************************************)
(* C26: the tracking fields of a fresh invocation                          *)
(***************************************************************************)
\* the fields every workflow's state carries beside its own
TrackingFields == {"currentStep", "completedSteps", "errors"}

\* the top-level invocations whose graph started from an input without
\* tracking fields
SchemaOnlyInvocations ==
    {i \in DOMAIN calls : /\ calls[i].kind = "invoke"
                          /\ calls[i].graphBuilt
                          /\ DOMAIN calls[i].input \cap TrackingFields = {}}

\* the messages of the errors a state has gathered
ErrorMessages(s) ==
    IF "errors" \in DOMAIN s THEN {s.errors[k].error : k \in DOMAIN s.errors}
    ELSE {}

\* C26: a top-level invocation whose input has only input-schema fields
\* starts with completedSteps = [] and errors = []; no node fails to append
\* to completedSteps, and when no remote call failed the invocation ends
\* with no error set
C26_InvocationStartsWithEmptyTracking ==
    \A i \in SchemaOnlyInvocations :
        LET c == calls[i] IN
        /\ {"completedSteps", "errors"} \subseteq DOMAIN c.state
        /\ c.nodesRun = <<>> =>
               c.state.completedSteps = <<>> /\ c.state.errors = <<>>
        /\ NotIterable \notin ErrorMessages(c.state)
        /\ (c.pc = "done" /\ "callTool failed" \notin ErrorMessages(c.state))
               => ~Truthy(c.state, "error")

(***************************************************************************)
(* C27: the entry edge of create_jira_with_audio_quote                     *)
(***************************************************************************)
\* the state the graph of a call was invoked with
StartState(c) ==
    GraphInput(c.workflowId, IF c.kind = "resume" THEN c.resumed ELSE c.input)

\* the state carries the resuming marker and a quote
ResumesWithQuote(s) == Truthy(s, "resuming") /\ Truthy(s, "quote")

AudioNodes == <<"processQuote", "generateAudio", "downloadAudio">>

\* the nodes of a call ran along path so far, and all of it once the call
\* has returned
RanAlong(c, path) ==
    /\ IsPrefix(c.nodesRun, path)
    /\ c.pc = "done" => c.nodesRun = path
    /\ c.pc = "graph" /\ c.nodesRun # path => c.next = path[Len(c.nodesRun) + 1]

\* C27: a create_jira_with_audio_quote graph invoked with resuming true and
\* a quote skips generatePrompt and runs processQuote, generateAudio,
\* downloadAudio in that order; invoked with anything else it runs
\* generatePrompt alone and ends, also on a resume whose merged state has
\* no quote
C27_EntryRoutesOnResumingAndQuote ==
    \A i \in DOMAIN calls :
        (calls[i].graphBuilt /\ calls[i].workflowId = JiraAudioQuote)
            => IF ResumesWithQuote(StartState(calls[i]))
               THEN RanAlong(calls[i], AudioNodes)
               ELSE RanAlong(calls[i], <<"generatePrompt">>)

\* a resume whose results set quote to null has run generatePrompt again
\* and returned, and another resume with a quote has run the audio nodes
C27_Witness ==
    /\ \E i \in DOMAIN calls :
           /\ calls[i].kind = "resume" /\ calls[i].workflowId = JiraAudioQuote
           /\ calls[i].pc = "done" /\ calls[i].graphBuilt
           /\ Truthy(calls[i].snapshot, "quote")
           /\ ~Truthy(StartState(calls[i]), "quote")
           /\ calls[i].nodesRun = <<"generatePrompt">>
    /\ \E i \in DOMAIN calls :
           /\ calls[i].kind = "resume" /\ calls[i].workflowId = JiraAudioQuote
           /\ calls[i].pc = "done"
           /\ ResumesWithQuote(StartState(calls[i]))
           /\ calls[i].nodesRun = AudioNodes

(***************************************************************************)
(* C28: every graph invocation ends, no node runs twice                    *)
(***************************************************************************)
\* no node occurs twice among the nodes a call has run
NoNodeTwice(c) ==
    \A j, k \in DOMAIN c.nodesRun : c.nodesRun[j] = c.nodesRun[k] => j = k

\* graph.invoke of call i has returned its final state
Returned(i) ==
    /\ i \in DOMAIN calls
    /\ calls[i].pc = "done"
    /\ calls[i].next = "END"
    /\ calls[i].thrown = None
    /\ calls[i].result = formatWorkflowResult(calls[i].state)

\* C28: every invocation of the create_jira_ticket, the
\* create_jira_with_audio_quote and the
\* create_audio_quote_and_append_to_ticket graph runs no node more than
\* once and, every remote call returning or failing, reaches END and
\* returns the final state
C28_EveryGraphTerminates ==
    /\ [](\A i \in DOMAIN calls : NoNodeTwice(calls[i]))
    /\ \A i \in 1..MaxGraphs :
           (i \in DOMAIN calls /\ calls[i].pc = "graph") ~> Returned(i)

\* a create_audio_quote_and_append_to_ticket graph has returned after its
\* four nodes, one of them failing, and so has a create_jira_ticket graph
\* after its one node
C28_Witness ==
    /\ \E i \in DOMAIN calls :
           /\ calls[i].workflowId = AudioQuoteAppend
           /\ Returned(i)
           /\ Len(calls[i].nodesRun) = 4
           /\ Truthy(calls[i].state, "error")
    /\ \E i \in DOMAIN calls :
           /\ calls[i].workflowId = CreateJiraTicket
           /\ Returned(i)
           /\ calls[i].nodesRun = <<"generatePrompt">>

(***************************************************************************)
(* C31: a failed connect is not cached                                     *)
(***************************************************************************)
\* the step is a call of connect for serverName
ConnectStep(serverName) ==
    clientRet'.op = "connect" /\ clientRet'.serverName = serverName

\* C31: connect for a name without configuration fails with the
\* configuration error and launches nothing; a connect whose handshake
\* fails raises the connection error with the server name; both leave the
\* connection map as it was, and every connect for a configured name that
\* is not connected launches a process anew
C31_FailedConnectIsNotCached ==
    [][\A s \in Servers :
          ConnectStep(s) =>
            /\ (~IsConnected(manager, s) /\ s \notin config)
                  => /\ ~clientRet'.ok
                     /\ clientRet'.outcome =
                            MCPClientError("No configuration found", s,
                                           Undefined, Undefined)
                     /\ manager'.spawned = manager.spawned
            /\ (~IsConnected(manager, s) /\ s \in config)
                  => /\ manager'.spawned[s] = manager.spawned[s] + 1
                     /\ ~clientRet'.ok
                            => /\ clientRet'.outcome.name = "MCPClientError"
                               /\ clientRet'.outcome.message = "Failed to connect"
                               /\ clientRet'.outcome.serverName = s
            /\ ~clientRet'.ok
                  => /\ manager'.connections = manager.connections
                     /\ manager'.opened = manager.opened
                     /\ ~IsConnected(manager', s)]_vars

\* a connect for elevenlabs has launched a second process and succeeded
\* after the handshake with the first one failed
C31_Witness ==
    /\ clientRet.op = "connect" /\ clientRet.serverName = "elevenlabs"
    /\ clientRet.ok /\ clientRet.launched
    /\ manager.spawned["elevenlabs"] = 2
    /\ manager.opened = {<<"elevenlabs", 2>>}
    /\ manager.closed = {}
    /\ IsConnected(manager, "elevenlabs")

(***************************************************************************)
(* C32: the reducer of create_audio_quote_and_append_to_ticket             *)
(***************************************************************************)
\* update defines field k: the field is present and not null
Defines(update, k) == k \in DOMAIN update /\ ~IsNull(update, k)

\* t is s with update merged in by "replace if defined, else keep"
MergedByDefault(s, update, t, fields) ==
    \A k \in fields :
        IF Defines(update, k)
        THEN k \in DOMAIN t /\ t[k] = update[k]
        ELSE /\ k \in DOMAIN t <=> k \in DOMAIN s
             /\ k \in DOMAIN s => t[k] = s[k]

\* C32: in the create_audio_quote_and_append_to_ticket graph, after a
\* node's update is merged every field the update defines has the update's
\* value and every other field has the value it had before
C32_AppendMergesByDefaultReducer ==
    [][\A i \in DOMAIN calls :
          (NodeRan(calls, calls', i) /\ calls[i].workflowId = AudioQuoteAppend)
              => MergedByDefault(calls[i].state, calls'[i].update,
                                 calls'[i].state, AudioQuoteAppendChannels)]_vars

\* a node of the append graph has failed: its update wrote currentStep,
\* error and errors and left completedSteps and ticketKey out, and the
\* state still has the steps and the ticket key it had
C32_Witness ==
    \E i \in DOMAIN calls :
        /\ calls[i].workflowId = AudioQuoteAppend
        /\ calls[i].nodesRun = <<"processQuote", "generateAudio">>
        /\ calls[i].update # <<>>
        /\ calls[i].update.currentStep = "error"
        /\ "completedSteps" \notin DOMAIN calls[i].update
        /\ "ticketKey" \notin DOMAIN calls[i].update
        /\ calls[i].state.completedSteps = <<"processQuote">>
        /\ calls[i].state.ticketKey = "TEST-123"
        /\ calls[i].state.currentStep = "error"

(***************************************************************************)
(* C33: which servers the configuration registers, and under which key     *)
(***************************************************************************)
\* key is prefix lower-cased with every underscore turned into a hyphen
IsKeyOf(key, prefix) ==
    /\ DOMAIN key = DOMAIN prefix
    /\ \A k \in DOMAIN prefix :
           /\ prefix[k] = "_" => key[k] = "-"
           /\ prefix[k] # "_" => key[k] = LowerCase(prefix[k])

\* the variables of an entry ask for a stdio server, give a command and
\* give args that parse as JSON
Registrable(e) ==
    /\ e.transport = "stdio"
    /\ NonEmpty(e.command)
    /\ NonEmpty(e.args)
    /\ JSONParse(e.args).ok

\* C33: loading registers a server exactly when its transport is stdio, its
\* command and args variables are set (to a value that is not empty) and the
\* args parse as JSON; its key is the prefix lower-cased with every
\* underscore turned into a hyphen; a server whose args do not parse is
\* skipped and the servers after it are still loaded
C33_RegistersExactlyTheWellFormedServers ==
    clientRet.op = "loadConfig" =>
        LET env == clientRet.env
            cfg == clientRet.config
        IN  /\ \A k \in DOMAIN env :
                   Registrable(env[k])
                       => \E key \in DOMAIN cfg :
                              /\ IsKeyOf(key, env[k].prefix)
                              /\ cfg[key].name = key
            /\ \A key \in DOMAIN cfg :
                   \E k \in DOMAIN env :
                       /\ Registrable(env[k])
                       /\ IsKeyOf(key, env[k].prefix)
                       /\ cfg[key].command = env[k].command
                       /\ cfg[key].args = JSONParse(env[k].args).value

\* the first server's args are invalid JSON and the server after it, whose
\* prefix has two underscores, is registered under its hyphenated key
C33_Witness ==
    /\ clientRet.op = "loadConfig"
    /\ Len(clientRet.env) = 2
    /\ clientRet.env[1] = [prefix |-> <<"E", "L">>, transport |-> "stdio",
                           command |-> "npx", args |-> "[-y"]
    /\ clientRet.env[2] = [prefix |-> <<"A", "_", "B", "_", "C">>,
                           transport |-> "stdio", command |-> "npx",
                           args |-> "[\"-y\"]"]
    /\ DOMAIN clientRet.config = {<<"a", "-", "b", "-", "c">>}

(***************************************************************************)
(* C34: the shape of every validation report                               *)
(***************************************************************************)
\* valid says that there are no errors, and every missing server and every
\* missing tool has an error of its own
WellFormedReport(r) ==
    /\ r.valid <=> r.errors = <<>>
    /\ \A j \in DOMAIN r.missingServers :
           \E k \in About(r.errors, r.missingServers[j]) : r.errors[k].detail = ""
    /\ \A j \in DOMAIN r.missingTools :
           AboutTool(r.errors, r.missingTools[j].server, r.missingTools[j].tool) # {}

\* C34: in the report of validateWorkflowRequirements, and in the report of
\* the validateRequirements call inside it, valid is true exactly when
\* errors is empty, whatever the warnings are, and every entry of
\* missingServers and of missingTools has a matching entry in errors
C34_ValidIffNoErrors ==
    [][clientRet'.op = "validate" =>
          /\ WellFormedReport(clientRet'.result)
          /\ WellFormedReport(
                 validateRequirements(
                     [result |-> EmptyReport, manager |-> manager],
                     clientRet'.workflow.requirements.mcpServers, config,
                     clientRet'.world).result)]_vars

\* a report that is not valid, with a missing server and a missing tool
C34_Witness ==
    /\ Validated
    /\ ~clientRet.result.valid
    /\ clientRet.result.missingServers # <<>>
    /\ clientRet.result.missingTools # <<>>

(***************************************************************************)
(* C35: error and errors in create_audio_quote_and_append_to_ticket        *)
(***************************************************************************)
\* the nodes of a call that failed, in the order they ran
FailedNodes(c) ==
    SelectSeq(c.nodesRun, LAMBDA n : n \notin SeqRange(c.completed))

\* the steps the error records of a list name, in order
StepsOf(errors) == [k \in DOMAIN errors |-> errors[k].step]

\* the error field says what the last record of errors says
ErrorIsLastRecord(s) ==
    /\ Truthy(s, "error")
    /\ s.error.message = s.errors[Len(s.errors)].error

\* C35: in create_audio_quote_and_append_to_ticket an error once set stays
\* set for the rest of the invocation; errors holds one record per failed
\* node in execution order, and error is the message of the last node that
\* failed
C35_ErrorStaysAndLastFailureWins ==
    /\ [][\A i \in DOMAIN calls :
             (NodeRan(calls, calls', i) /\ calls[i].workflowId = AudioQuoteAppend)
                 => /\ Truthy(calls[i].state, "error")
                           => Truthy(calls'[i].state, "error")
                    /\ calls'[i].update.currentStep # "error"
                           => /\ Truthy(calls'[i].state, "error")
                                     = Truthy(calls[i].state, "error")
                              /\ Truthy(calls[i].state, "error")
                                     => calls'[i].state.error = calls[i].state.error
                              /\ calls'[i].state.errors = calls[i].state.errors]_vars
    /\ [](\A i \in DOMAIN calls :
             (calls[i].graphBuilt /\ calls[i].workflowId = AudioQuoteAppend)
                 => /\ StepsOf(calls[i].state.errors)
                           = StepsOf(StartState(calls[i]).errors)
                                 \o FailedNodes(calls[i])
                    /\ FailedNodes(calls[i]) # <<>>
                           => ErrorIsLastRecord(calls[i].state))

\* an invocation has returned after generateAudio, downloadAudio and
\* generateFileAttachmentPrompt failed one after the other
C35_Witness ==
    \E i \in DOMAIN calls :
        /\ calls[i].workflowId = AudioQuoteAppend
        /\ calls[i].pc = "done" /\ calls[i].graphBuilt
        /\ FailedNodes(calls[i])
               = <<"generateAudio", "downloadAudio", "generateFileAttachmentPrompt">>
        /\ Len(calls[i].state.errors) = 3
        /\ calls[i].state.error.prefix = "Failed to generate file attachment prompt"
        /\ calls[i].state.errors[1].error = "callTool failed"

(***************************************************************************)
(* C36: no step name twice in completedSteps                               *)
(***************************************************************************)
\* no element occurs twice in q
NoDuplicates(q) == \A j, k \in DOMAIN q : q[j] = q[k] => j = k

\* C36: over an invocation and any resume of its snapshot completedSteps
\* never holds the same step name twice: a graph that starts from a list
\* without repetition never records a step that the list already holds
C36_NoStepRecordedTwice ==
    \A i \in DOMAIN calls :
        (calls[i].graphBuilt /\ NoDuplicates(StepsAtStart(calls[i])))
            => NoDuplicates(ListOf(calls[i].state, "completedSteps"))

(***************************************************************************)
(* C37: no handle is handed out while it is being closed                   *)
(***************************************************************************)
\* the clients whose close() a suspended disconnect is waiting for
Closing ==
    {connects[i].client : i \in {j \in DOMAIN connects : connects[j].pc = "closing"}}

\* the step is a connect, listTools or callTool that obtained a handle for
\* serverName
HandedOut(serverName) ==
    /\ clientRet'.op \in {"connect", "listTools", "callTool"}
    /\ clientRet'.serverName = serverName
    /\ IsConnected(manager', serverName)

\* C37: while a disconnect is suspended awaiting the close of a connection,
\* a connect, listTools or callTool for the same name does not obtain the
\* handle that is being closed
C37_ClosingHandleNotHandedOut ==
    [][\A s \in Servers :
          HandedOut(s) => manager'.connections[s].client \notin Closing]_vars

(***************************************************************************)
(* C38: a resume rejected for an unregistered workflow keeps the token     *)
(***************************************************************************)
\* the step appended a resume call for a token whose record is live and
\* names a workflow that the registry does not hold
ResumedUnregistered(before, after) ==
    /\ Len(after) = Len(before) + 1
    /\ after[Len(after)].kind = "resume"
    /\ after[Len(after)].token \in DOMAIN states
    /\ ~IsExpired(states[after[Len(after)].token], now)
    /\ states[after[Len(after)].token].workflowId \notin WorkflowIds

\* C38: a resume whose token names a workflow that is not registered is
\* rejected as such, leaves the record in the store as it was, deletes
\* nothing and runs no node, so the token can still be loaded until it
\* expires
C38_UnregisteredResumeKeepsToken ==
    /\ [][ResumedUnregistered(calls, calls')
             => LET c == calls'[Len(calls')]
                IN  /\ c.rejection = McpError("MethodNotFound", "Workflow not found")
                    /\ states' = states
                    /\ deleted' = deleted
                    /\ LoadValue(states', c.token, now') = states[c.token].state
                    /\ ~c.graphBuilt /\ c.nodesRun = <<>> /\ c.pc = "done"]_vars
    /\ [](\A i \in DOMAIN calls :
             calls[i].rejection = McpError("MethodNotFound", "Workflow not found")
                 => calls[i].nodesRun = <<>> /\ calls[i].result = None)

\* a token of an unregistered workflow was rejected twice and is still in
\* the store
C38_Witness ==
    \E i, j \in DOMAIN calls :
        /\ i < j
        /\ calls[i].token = calls[j].token
        /\ calls[i].rejection = McpError("MethodNotFound", "Workflow not found")
        /\ calls[j].rejection = McpError("MethodNotFound", "Workflow not found")
        /\ calls[i].token \in DOMAIN states
        /\ states[calls[i].token].workflowId = RetiredWorkflow

====
